---- MODULE Spec2Model ----
(***************************************************************************)
(* Server actions of the daily word game (src/unnamed/part_001, lines      *)
(* 1-588): getTodaysPuzzle, generateDailyPuzzle, initializeGame,           *)
(* getUserGameState, validateWord and submitGuess, running as concurrent   *)
(* request handlers over the tables secret_words, dictionary,              *)
(* daily_puzzles and user_games.  Every "await supabase..." is one atomic  *)
(* step of a handler; the code between two awaits belongs to the step of   *)
(* the await that precedes it.                                             *)
(*                                                                         *)
(* Strings are sequences of UTF-16 code units, compared as JavaScript      *)
(* compares them.                                                          *)
(***************************************************************************)
EXTENDS Integers, Sequences, FiniteSets, TLC

(***************************************************************************)
(* Bounds of the model.                                                    *)
(***************************************************************************)
MaxCalls == 2
NClients == 1
MaxDays == 2
MaxFaults == 1
MaxSessions == 1
MaxRequests == 3
MaxInFlight == 2
MaxPrismaRequests == 2
MaxGenRequests == 2

(***************************************************************************)
(* Program constants.                                                      *)
(***************************************************************************)
GuessLength == 5
MinSideWords == 100
FetchLimit == 1000
minOffset == 2
maxOffset == 4
CodeLowerA == 97
CodeLowerZ == 122
FallbackWindow == 100
TileCount == 5

(***************************************************************************)
(* Strings.                                                                *)
(***************************************************************************)
cc == [a |-> 97, b |-> 98, c |-> 99, d |-> 100, e |-> 101, g |-> 103,
       h |-> 104, i |-> 105, j |-> 106, k |-> 107, l |-> 108, m |-> 109,
       n |-> 110, o |-> 111, p |-> 112, r |-> 114, s |-> 115, x |-> 120,
       y |-> 121,
       z |-> 122,
       t |-> 116,
       A |-> 65, B |-> 66, C |-> 67, E |-> 69, G |-> 71, I |-> 73, K |-> 75,
       N |-> 78, O |-> 79, P |-> 80, R |-> 82, S |-> 83, T |-> 84,
       digit1 |-> 49]

\* String.prototype.toLowerCase on one code unit (ASCII letters).
LowerChar(ch) == IF ch >= 65 /\ ch <= 90 THEN ch + 32 ELSE ch

\* String.prototype.toUpperCase on one code unit (ASCII letters).
UpperChar(ch) == IF ch >= 97 /\ ch <= 122 THEN ch - 32 ELSE ch

toLowerCase(s) == [idx \in 1..Len(s) |-> LowerChar(s[idx])]

toUpperCase(s) == [idx \in 1..Len(s) |-> UpperChar(s[idx])]

\* JavaScript's < on strings: lexicographic by code unit, a proper prefix
\* is smaller.
RECURSIVE StrLess(_, _)
StrLess(s, t) ==
  IF s = <<>> THEN t # <<>>
  ELSE IF t = <<>> THEN FALSE
  ELSE IF s[1] = t[1] THEN StrLess(Tail(s), Tail(t))
  ELSE s[1] < t[1]

StrLessEq(s, t) == s = t \/ StrLess(s, t)

charAt0(s) == s[1]

(***************************************************************************)
(* The seeded tables.  The words are data, chosen so that every branch of  *)
(* the generator and of the guess handler is taken.                        *)
(***************************************************************************)
apple == <<cc.a, cc.p, cc.p, cc.l, cc.e>>
abbey == <<cc.a, cc.b, cc.b, cc.e, cc.y>>
bingo == <<cc.b, cc.i, cc.n, cc.g, cc.o>>
BINGO == <<cc.B, cc.I, cc.N, cc.G, cc.O>>
cabin == <<cc.c, cc.a, cc.b, cc.i, cc.n>>
chair == <<cc.c, cc.h, cc.a, cc.i, cc.r>>
eagle == <<cc.e, cc.a, cc.g, cc.l, cc.e>>
kayak == <<cc.k, cc.a, cc.y, cc.a, cc.k>>
mango == <<cc.m, cc.a, cc.n, cc.g, cc.o>>
piano == <<cc.p, cc.i, cc.a, cc.n, cc.o>>
baaaa == <<cc.b, cc.a, cc.a, cc.a, cc.a>>
sabre == <<cc.s, cc.a, cc.b, cc.r, cc.e>>
bzzzz == <<cc.b, cc.z, cc.z, cc.z, cc.z>>
szzzz == <<cc.s, cc.z, cc.z, cc.z, cc.z>>
zz == <<cc.z, cc.z>>

FillLetters == cc.a .. cc.j

Filler(c1, c2, c3) == {<<c1, c2, c3, u, v>> : u \in FillLetters, v \in FillLetters}

\* table dictionary
dictionary ==
  {apple, bingo, chair, eagle, kayak, mango, piano, sabre, szzzz}
    \cup Filler(cc.b, cc.a, cc.a)
    \cup Filler(cc.b, cc.z, cc.z)
    \cup Filler(cc.m, cc.z, cc.z)
    \cup Filler(cc.s, cc.z, cc.z)

\* the built-in word list of @/lib/wordList
wordList == {cabin, chair, bingo, mango}

\* the secret words a seed may insert into table secret_words: id -> word
SecretIds == 1..4

secret_word == <<bingo, mango, abbey, sabre>>

\* the ids of a seed of two words ("bingo" and "abbey"), and of all four
SmallSeed == {1, 3}

FullSeed == SecretIds

\* the guesses a client may send
GuessInputs == {baaaa, cabin, chair, BINGO, zz, bzzzz}

(***************************************************************************)
(* generateDailyPuzzle: the pure part (candidate filter, findBracketWord). *)
(***************************************************************************)
\* .lt('word', w).order(desc).limit(n): the n nearest words below w
topWordsOf(w) ==
  LET below == {dw \in dictionary : StrLess(dw, w)}
  IN  IF Cardinality(below) <= FetchLimit THEN below
      ELSE {dw \in below :
              Cardinality({e \in below : StrLess(dw, e)}) < FetchLimit}

\* a query with .gte in place of .gt: the word itself is fetched too
bottomWordsOfInclusive(w) ==
  LET above == {dw \in dictionary : StrLessEq(w, dw)}
  IN  IF Cardinality(above) <= FetchLimit THEN above
      ELSE {dw \in above :
              Cardinality({e \in above : StrLess(e, dw)}) < FetchLimit}

\* .gt('word', w).order(asc).limit(n): the n nearest words above w
bottomWordsOf(w) ==
  LET above == {dw \in dictionary : StrLess(w, dw)}
  IN  IF Cardinality(above) <= FetchLimit THEN above
      ELSE {dw \in above :
              Cardinality({e \in above : StrLess(e, dw)}) < FetchLimit}

\* the candidate test of the selection loop
HasEnoughWords(w) ==
  /\ Cardinality(topWordsOf(w)) >= MinSideWords
  /\ Cardinality(bottomWordsOf(w)) >= MinSideWords

\* a target range that starts 1 letter away: the neighbouring letter counts
targetLettersAdjacent(secretCharCode, direction) ==
  IF direction = "before"
  THEN {ch \in {secretCharCode - off : off \in 1..maxOffset} :
          ch >= CodeLowerA}
  ELSE {ch \in {secretCharCode + off : off \in 1..maxOffset} :
          ch <= CodeLowerZ}

\* the first letters 2-4 away from the secret's, inside a..z
targetLetters(secretCharCode, direction) ==
  IF direction = "before"
  THEN {ch \in {secretCharCode - off : off \in minOffset..maxOffset} :
          ch >= CodeLowerA}
  ELSE {ch \in {secretCharCode + off : off \in minOffset..maxOffset} :
          ch <= CodeLowerZ}

\* the first Math.min(words.length, 100) entries of the fetched list: the
\* list is ordered away from the secret word
firstOfList(words, direction) ==
  IF direction = "before"
  THEN {w \in words :
          Cardinality({e \in words : StrLess(w, e)}) < FallbackWindow}
  ELSE {w \in words :
          Cardinality({e \in words : StrLess(e, w)}) < FallbackWindow}

\* the set of words findBracketWord can return, over all values of
\* Math.random()
findBracketWord(words, direction, secret) ==
  LET secretFirstLetter == charAt0(secret)
      wordsByLetter == {charAt0(w) : w \in words}
      availableTargetLetters ==
        {ch \in targetLetters(secretFirstLetter, direction) :
           ch \in wordsByLetter}
      availableLetters == wordsByLetter \ {secretFirstLetter}
  IN  IF availableTargetLetters # {}
      THEN {w \in words : charAt0(w) \in availableTargetLetters}
      ELSE IF availableLetters # {}
      THEN {w \in words : charAt0(w) \in availableLetters}
      ELSE firstOfList(words, direction)

\* per secret word: is it a usable candidate, and its possible brackets
Suitable == [s \in SecretIds |-> HasEnoughWords(secret_word[s])]

TopChoices ==
  [s \in SecretIds |->
     IF Suitable[s]
     THEN findBracketWord(topWordsOf(secret_word[s]), "before", secret_word[s])
     ELSE {}]

BottomChoices ==
  [s \in SecretIds |->
     IF Suitable[s]
     THEN findBracketWord(bottomWordsOf(secret_word[s]), "after", secret_word[s])
     ELSE {}]

(***************************************************************************)
(* Rows, responses and the state of a request handler.                     *)
(***************************************************************************)
undefined == <<>>

NoSession == 0

NoPuzzle == [id |-> 0, date |-> 0, topWord |-> undefined, bottomWord |-> undefined]

NoGame ==
  [id |-> 0, sessionId |-> NoSession, dailyPuzzleId |-> 0,
   currentTop |-> undefined, currentBottom |-> undefined,
   guesses |-> <<>>, guessDirections |-> <<>>,
   completed |-> FALSE, won |-> FALSE]

NoState ==
  [id |-> 0, currentTop |-> undefined, currentBottom |-> undefined,
   guesses |-> <<>>, guessDirections |-> <<>>,
   completed |-> FALSE, won |-> FALSE, secretWord |-> undefined]

NoMessage == [text |-> "", word |-> undefined]

\* kind: "none" while the handler runs, then "value" (an object), "null"
\* or "throw"
NoResult ==
  [kind |-> "none", success |-> FALSE, message |-> NoMessage,
   newState |-> NoState]

Idle ==
  [op |-> "idle", pc |-> "idle", client |-> 0, guess |-> undefined,
   reqCookie |-> NoSession, setCookie |-> NoSession,
   sessionId |-> NoSession, todayStr |-> 0, error |-> "none",
   puzzle |-> NoPuzzle, candidate |-> 0, remaining |-> {}, topOk |-> FALSE,
   secretId |-> 0, topWord |-> undefined,
   bottomWord |-> undefined, settled |-> {}, userGame |-> NoGame,
   secretWord |-> undefined, result |-> NoResult]

CallIds == 1..MaxCalls

Clients == 1..NClients

(***************************************************************************)
(* The GameBoard component: its state and its event handlers.              *)
(***************************************************************************)
\* the keys of the on-screen Keyboard (its two word keys and one letter)
ENTER == <<cc.E, cc.N, cc.T, cc.E, cc.R>>

BACKSPACE == <<cc.B, cc.A, cc.C, cc.K, cc.S, cc.P, cc.A, cc.C, cc.E>>

KEYBOARD_ROWS == {ENTER, BACKSPACE, <<cc.A>>}

\* event.key of the keydown events a user sends: "Enter", "Backspace", a
\* letter, and a key the handler ignores
KeyEnter == <<cc.E, cc.n, cc.t, cc.e, cc.r>>

KeyBackspace == <<cc.B, cc.a, cc.c, cc.k, cc.s, cc.p, cc.a, cc.c, cc.e>>

EventKeys == {KeyEnter, KeyBackspace, <<cc.a>>, <<cc.digit1>>}

EmptyString == <<>>

TileIndexes == 1..TileCount

\* the game states a server action can hand to the component: null is
\* NoState, then a game in progress and a completed game
GameInProgress == [NoState EXCEPT !.id = 1]

GameWon == [NoState EXCEPT !.id = 1, !.completed = TRUE, !.won = TRUE]

\* the component after its first render and its mount effects: with no
\* initial state the effect has called initializeGame
Mounted(initialState) ==
  [gameState |-> initialState,
   currentGuess |-> [i \in TileIndexes |-> EmptyString],
   message |-> NoMessage,
   preValidationCache |-> {},
   isPreValidating |-> FALSE,
   validating |-> undefined,
   initializing |-> initialState = NoState,
   submitting |-> 0]

\* useTransition: a transition is pending while an action started in it is
isPending(b) == b.initializing \/ b.submitting > 0

RECURSIVE joinUpTo(_, _)
joinUpTo(arr, n) ==
  IF n = 0 THEN EmptyString ELSE joinUpTo(arr, n - 1) \o arr[n]

\* Array.prototype.join("")
join(arr) == joinUpTo(arr, Len(arr))

\* preValidationCache.has(word)
cacheHas(cache, word) == \E e \in cache : e.word = word

\* preValidationCache.get(word), for a word the cache has
cacheGet(cache, word) == CHOOSE e \in cache : e.word = word

cacheDelete(cache, word) == {e \in cache : e.word # word}

\* the effect "Pre-validate when currentGuess reaches 5 letters" and
\* preValidateWord up to its call of validateWord.  The effect runs after a
\* render in which one of its dependencies [currentGuess,
\* gameState?.completed] has changed; React compares the array currentGuess
\* by identity, so depsChanged is true after every call of setCurrentGuess,
\* also one that leaves every tile as it was
preValidateEffect(depsChanged, b) ==
  LET filledCount ==
        Cardinality({i \in TileIndexes : b.currentGuess[i] # EmptyString})
      word == toLowerCase(join(b.currentGuess))
  IN  IF /\ depsChanged
         /\ filledCount = TileCount
         /\ ~b.gameState.completed
         /\ ~cacheHas(b.preValidationCache, word)
         /\ ~b.isPreValidating
         /\ Len(word) = TileCount
      THEN [b EXCEPT !.isPreValidating = TRUE, !.validating = word]
      ELSE b

handleTileClick(b, index) ==
  IF b.gameState.completed THEN b
  ELSE [b EXCEPT !.currentGuess[index] = EmptyString, !.message = NoMessage]

\* ENTER starts a transition that shows the cached rejection of the word or
\* calls submitGuess; BACKSPACE clears the rightmost filled tile; a letter
\* fills the leftmost empty tile
handleKeyPress(b, key) ==
  IF b.gameState.completed THEN b
  ELSE IF key = ENTER
  THEN LET wordString == toLowerCase(join(b.currentGuess))
       IN  IF Len(wordString) = TileCount
           THEN IF /\ cacheHas(b.preValidationCache, wordString)
                   /\ ~cacheGet(b.preValidationCache, wordString).isValid
                THEN [b EXCEPT
                        !.message =
                          cacheGet(b.preValidationCache, wordString).message,
                        !.preValidationCache =
                          cacheDelete(b.preValidationCache, wordString)]
                ELSE [b EXCEPT !.submitting = @ + 1]
           ELSE [b EXCEPT !.message = [text |-> "Word must be 5 letters",
                                        word |-> undefined]]
  ELSE IF key = BACKSPACE
  THEN LET filled == {i \in TileIndexes : b.currentGuess[i] # EmptyString}
       IN  IF filled = {} THEN [b EXCEPT !.message = NoMessage]
           ELSE [b EXCEPT
                   !.currentGuess[CHOOSE i \in filled :
                                    \A j \in filled : j <= i] = EmptyString,
                   !.message = NoMessage]
  ELSE IF Len(key) = 1
  THEN LET empty == {i \in TileIndexes : b.currentGuess[i] = EmptyString}
       IN  IF empty = {} THEN [b EXCEPT !.message = NoMessage]
           ELSE [b EXCEPT
                   !.currentGuess[CHOOSE i \in empty :
                                    \A j \in empty : i <= j] = toLowerCase(key),
                   !.message = NoMessage]
  ELSE b

\* /^[a-zA-Z]$/.test(event.key)
isLetterKey(key) ==
  /\ Len(key) = 1
  /\ \/ key[1] \in cc.a .. cc.z
     \/ key[1] \in cc.A .. (cc.A + (cc.z - cc.a))

handleKeyDown(b, key) ==
  IF key = KeyEnter THEN handleKeyPress(b, ENTER)
  ELSE IF key = KeyBackspace THEN handleKeyPress(b, BACKSPACE)
  ELSE IF isLetterKey(key) THEN handleKeyPress(b, toUpperCase(key))
  ELSE b

\* handleKeyPress(key) calls setCurrentGuess: in its branches for BACKSPACE
\* and for a letter, whose updaters return a new array ([...prev]) whether
\* or not a tile changes; not for ENTER, and not when the game is completed
setCurrentGuessCalled(b, key) ==
  /\ ~b.gameState.completed
  /\ key # ENTER
  /\ key = BACKSPACE \/ Len(key) = 1

\* handleKeyDown(event) calls setCurrentGuess
setCurrentGuessCalledOnKeyDown(b, key) ==
  IF key = KeyEnter THEN FALSE
  ELSE IF key = KeyBackspace THEN setCurrentGuessCalled(b, BACKSPACE)
  ELSE IF isLetterKey(key) THEN setCurrentGuessCalled(b, toUpperCase(key))
  ELSE FALSE

VARIABLES
  today,          \* the calendar day of the server clock
  cookie,         \* per browser: the sessionId cookie, or NoSession
  nextSession,    \* the next value uuidv4() returns
  used,           \* secret_words.used, per row of the table (by id)
  daily_puzzles,  \* table daily_puzzles, row id = index
  user_games,     \* table user_games, row id = index
  calls,          \* the request handlers in flight
  response,       \* the handler that has just returned, with its result
  requests,       \* requests the browsers have sent so far
  faults,         \* store requests that failed so far
  board           \* the state of a mounted GameBoard component

vars == <<today, cookie, nextSession, used, daily_puzzles, user_games, calls,
          response, requests, faults, board>>

store == <<used, daily_puzzles, user_games>>

Init ==
  /\ today = 1
  /\ cookie = [cl \in Clients |-> NoSession]
  /\ nextSession = 1
  /\ used = [s \in SmallSeed |-> FALSE]
  /\ daily_puzzles = <<>>
  /\ user_games = <<>>
  /\ calls = [c \in CallIds |-> Idle]
  /\ response = Idle
  /\ requests = 0
  /\ faults = 0
  /\ board = Mounted(NoState)

\* a store request may fail (network, database) instead of answering
MayFail == faults < MaxFaults

\* the secret word of a puzzle row: the join secret_words(word)
SecretOf(puzzleId) == secret_word[daily_puzzles[puzzleId].secretWordId]

PuzzlesOn(dateStr) ==
  {pid \in 1..Len(daily_puzzles) : daily_puzzles[pid].date = dateStr}

\* a query that forgets .eq('dailyPuzzleId', ...): the session's games of
\* every day
GamesOfAnyPuzzle(sessionId, puzzleId) ==
  {gid \in 1..Len(user_games) : user_games[gid].sessionId = sessionId}

\* .eq('sessionId', ...).eq('dailyPuzzleId', ...) on user_games
GamesOf(sessionId, puzzleId) ==
  {gid \in 1..Len(user_games) :
     /\ user_games[gid].sessionId = sessionId
     /\ user_games[gid].dailyPuzzleId = puzzleId}

\* a query that never finds its row
SingleNever(rows, table, none) == none

\* .single(): the row when exactly one matches, else no data
Single(rows, table, none) ==
  IF Cardinality(rows) = 1 THEN table[CHOOSE r \in rows : TRUE] ELSE none

\* the columns getTodaysPuzzle returns
PuzzleData(row) ==
  [id |-> row.id, date |-> row.date, topWord |-> row.topWord,
   bottomWord |-> row.bottomWord]

(***************************************************************************)
(* Responses.                                                              *)
(***************************************************************************)
Failure(text, word) ==
  [kind |-> "value", success |-> FALSE,
   message |-> [text |-> text, word |-> word], newState |-> NoState]

Success(text, state) ==
  [kind |-> "value", success |-> TRUE,
   message |-> [text |-> text, word |-> undefined], newState |-> state]

\* initializeGame and getUserGameState return the GameState itself
Returned(state) ==
  [kind |-> "value", success |-> TRUE, message |-> NoMessage,
   newState |-> state]

ReturnedNull == [NoResult EXCEPT !.kind = "null"]

Thrown == [NoResult EXCEPT !.kind = "throw"]

\* the GameState object built from a user_games row
GameStateOf(row, secretWord) ==
  [id |-> row.id, currentTop |-> row.currentTop,
   currentBottom |-> row.currentBottom, guesses |-> row.guesses,
   guessDirections |-> row.guessDirections, completed |-> row.completed,
   won |-> row.won, secretWord |-> secretWord]

\* a handler that asks for the secret word of every game
NeedsSecretAlways(userGame) == TRUE

\* "Get secret word only if game is completed": the test before the request
NeedsSecret(userGame) == userGame.completed

\* fullPuzzle?.secret_words?.word of the request for the secret word of a
\* puzzle: undefined when the request fails
fullPuzzleWord(puzzleId, fail) ==
  IF fail THEN undefined ELSE SecretOf(puzzleId)

\* the handler returns (or throws) this result
Finish(cr, result) == [cr EXCEPT !.pc = "done", !.result = result]

\* One step of handler c that leaves it as ncr.  When the handler has
\* returned, its slot is free, the browser has the response with the
\* cookie the handler set, and response shows the handler as it ended.
Step(c, ncr) ==
  IF ncr.pc = "done"
  THEN /\ calls' = [calls EXCEPT ![c] = Idle]
       /\ response' = ncr
       /\ cookie' = IF ncr.setCookie # NoSession /\ ncr.result.kind # "throw"
                    THEN [cookie EXCEPT ![ncr.client] = ncr.setCookie]
                    ELSE cookie
  ELSE /\ calls' = [calls EXCEPT ![c] = ncr]
       /\ response' = Idle
       /\ UNCHANGED cookie

(***************************************************************************)
(* validateWord                                                            *)
(***************************************************************************)
\* a length test that lets short guesses through
LengthOkAtMost(guess) == Len(guess) <= GuessLength

LengthOk(guess) == Len(guess) = GuessLength

\* wordList.includes(guessLower)
isInWordList(guess) == toLowerCase(guess) \in wordList

\* the data of dictionary.select('word').eq('word', guessLower).single():
\* the word, or nothing when no row matches or the request fails
supabaseWord(guess, fail) ==
  IF ~fail /\ toLowerCase(guess) \in dictionary THEN toLowerCase(guess)
  ELSE undefined

\* isValidWord; the request is made for a word outside wordList
InDictionary(guess, fail) ==
  isInWordList(guess) \/ supabaseWord(guess, fail) # undefined

validateWord(guess, fail) ==
  IF ~LengthOk(guess) THEN Failure("Guess must be 5 letters", undefined)
  ELSE IF ~InDictionary(guess, fail)
  THEN Failure("Word not in dictionary", undefined)
  ELSE [kind |-> "value", success |-> TRUE,
        message |-> [text |-> "Valid word", word |-> undefined],
        newState |-> NoState]

(***************************************************************************)
(* getOrCreateSessionId and the start of the three handlers                *)
(***************************************************************************)
\* a browser sends a request; its handler takes the lowest free slot
Free(c) ==
  /\ requests < MaxRequests
  /\ calls[c].pc = "idle"
  /\ \A d \in CallIds : d < c => calls[d].pc # "idle"

\* the handler's code after "await getTodaysPuzzle()"; a call of the
\* exported getTodaysPuzzle itself returns the puzzle
AfterPuzzle(cr, puzzle) ==
  LET got == [cr EXCEPT !.puzzle = puzzle, !.error = "none",
                        !.candidate = 0, !.remaining = {}, !.topOk = FALSE,
                        !.secretId = 0, !.topWord = undefined,
                        !.bottomWord = undefined]
  IN  CASE cr.op = "submitGuess" ->
             IF puzzle = NoPuzzle
             THEN Finish(cr, Failure("No puzzle available", undefined))
             ELSE [got EXCEPT !.pc = "sgRead"]
        [] cr.op = "initializeGame" ->
             IF puzzle = NoPuzzle
             THEN Finish(cr, ReturnedNull)
             ELSE [got EXCEPT !.pc = "igSelect",
                              !.setCookie = IF cr.reqCookie = NoSession
                                            THEN cr.sessionId ELSE NoSession]
        [] cr.op = "getUserGameState" ->
             IF puzzle = NoPuzzle
             THEN Finish(cr, ReturnedNull)
             ELSE [got EXCEPT !.pc = "gsSelect"]
        [] OTHER ->
             IF puzzle = NoPuzzle
             THEN Finish(cr, ReturnedNull)
             ELSE Finish(got, [NoResult EXCEPT !.kind = "value"])

\* submitGuess from getOrCreateSessionId to the first query of
\* getTodaysPuzzle: the session id of the request's cookie or a new one,
\* and the day of the clock
EnterPuzzle(cr, day, newSession) ==
  LET fresh == cr.reqCookie = NoSession
  IN  [cr EXCEPT !.pc = "lookup1", !.todayStr = day,
                 !.sessionId = IF fresh THEN newSession ELSE cr.reqCookie,
                 !.setCookie = IF fresh THEN newSession ELSE NoSession]

\* submitGuess up to its first store request: the request of validateWord
\* for a guess outside wordList, else the first query of getTodaysPuzzle
StartSubmitGuess(c, cl, guess, skipValidation) ==
  /\ Free(c)
  /\ LET fresh == cookie[cl] = NoSession
         base == [Idle EXCEPT !.op = "submitGuess", !.client = cl,
                              !.guess = guess, !.reqCookie = cookie[cl]]
     IN  IF ~LengthOk(guess)
         THEN /\ Step(c,
                   Finish(base, Failure("Guess must be 5 letters", undefined)))
              /\ UNCHANGED nextSession
         ELSE IF ~skipValidation /\ ~isInWordList(guess)
         THEN /\ fresh => nextSession <= MaxSessions
              /\ Step(c, [base EXCEPT !.pc = "validate"])
              /\ UNCHANGED nextSession
         ELSE /\ fresh => nextSession <= MaxSessions
              /\ Step(c, EnterPuzzle(base, today, nextSession))
              /\ nextSession' = IF fresh THEN nextSession + 1 ELSE nextSession
  /\ requests' = requests + 1
  /\ UNCHANGED <<board, today, store, faults>>

\* the dictionary request of validateWord answers or fails; a valid guess
\* goes on to getOrCreateSessionId and getTodaysPuzzle
SgValidate(c, fail) ==
  /\ calls[c].pc = "validate"
  /\ fail => MayFail
  /\ LET cr == calls[c]
         fresh == cr.reqCookie = NoSession
         validationResult == validateWord(cr.guess, fail)
     IN  IF ~validationResult.success
         THEN /\ Step(c, Finish(cr, validationResult))
              /\ UNCHANGED nextSession
         ELSE /\ fresh => nextSession <= MaxSessions
              /\ Step(c, EnterPuzzle(cr, today, nextSession))
              /\ nextSession' = IF fresh THEN nextSession + 1 ELSE nextSession
  /\ faults' = IF fail THEN faults + 1 ELSE faults
  /\ UNCHANGED <<board, requests, today, store>>

\* initializeGame up to the call of getTodaysPuzzle
StartInitializeGame(c, cl) ==
  /\ Free(c)
  /\ LET fresh == cookie[cl] = NoSession
     IN  /\ fresh => nextSession <= MaxSessions
         /\ Step(c,
              [Idle EXCEPT !.op = "initializeGame", !.client = cl,
                           !.reqCookie = cookie[cl], !.pc = "lookup1",
                           !.todayStr = today,
                           !.sessionId = IF fresh THEN nextSession
                                         ELSE cookie[cl]])
         /\ nextSession' = IF fresh THEN nextSession + 1 ELSE nextSession
  /\ requests' = requests + 1
  /\ UNCHANGED <<board, today, store, faults>>

\* getUserGameState up to the call of getTodaysPuzzle
StartGetUserGameState(c, cl) ==
  /\ Free(c)
  /\ LET base == [Idle EXCEPT !.op = "getUserGameState", !.client = cl,
                              !.reqCookie = cookie[cl]]
     IN  Step(c,
           IF cookie[cl] = NoSession
           THEN Finish(base, ReturnedNull)
           ELSE [base EXCEPT !.pc = "lookup1", !.todayStr = today,
                             !.sessionId = cookie[cl]])
  /\ requests' = requests + 1
  /\ UNCHANGED <<board, today, nextSession, store, faults>>

\* a call of the exported getTodaysPuzzle up to its first query
StartGetTodaysPuzzle(c, cl) ==
  /\ Free(c)
  /\ Step(c, [Idle EXCEPT !.op = "getTodaysPuzzle", !.client = cl,
                          !.pc = "lookup1", !.todayStr = today])
  /\ requests' = requests + 1
  /\ UNCHANGED <<board, today, nextSession, store, faults>>

(***************************************************************************)
(* getTodaysPuzzle and generateDailyPuzzle                                 *)
(***************************************************************************)
\* the first query for today's puzzle: only its error is kept
Lookup1(c, fail) ==
  /\ calls[c].pc = "lookup1"
  /\ fail => MayFail
  /\ Step(c, [calls[c] EXCEPT
                !.pc = "lookup2",
                !.error = IF fail THEN "other"
                          ELSE IF Cardinality(PuzzlesOn(calls[c].todayStr)) = 1
                          THEN "none" ELSE "PGRST116"])
  /\ faults' = IF fail THEN faults + 1 ELSE faults
  /\ UNCHANGED <<board, requests, today, nextSession, store>>

\* the second query: only its data is kept; then the two tests on error
\* and on the puzzle
Lookup2(c, fail) ==
  /\ calls[c].pc = "lookup2"
  /\ fail => MayFail
  /\ LET cr == calls[c]
         row == IF fail THEN NoPuzzle
                ELSE Single(PuzzlesOn(cr.todayStr), daily_puzzles, NoPuzzle)
     IN  Step(c,
           IF cr.error = "other" THEN AfterPuzzle(cr, NoPuzzle)
           ELSE IF row = NoPuzzle THEN [cr EXCEPT !.pc = "genSelect"]
           ELSE AfterPuzzle(cr, PuzzleData(row)))
  /\ faults' = IF fail THEN faults + 1 ELSE faults
  /\ UNCHANGED <<board, requests, today, nextSession, store>>

\* a selection that forgets the filter .eq('used', false)
UnusedIgnoringFlag == DOMAIN used

\* secret_words.select('id, word').eq('used', false)
Unused == {s \in DOMAIN used : ~used[s]}

\* generateDailyPuzzle: the request for the unused secret words, the throw
\* when it fails or finds none, the shuffle and the first dictionary
\* request for its first candidate s
GenSelect(c, s, fail) ==
  /\ calls[c].pc = "genSelect"
  /\ fail => MayFail
  /\ LET cr == calls[c]
         secretWords == IF fail THEN {} ELSE Unused
     IN  IF secretWords = {}
         THEN /\ s = 0
              /\ Step(c, Finish(cr, Thrown))
         ELSE /\ s \in secretWords
              /\ Step(c, [cr EXCEPT !.pc = "genTopWords", !.candidate = s,
                                    !.remaining = secretWords \ {s}])
  /\ faults' = IF fail THEN faults + 1 ELSE faults
  /\ UNCHANGED <<board, requests, today, nextSession, store>>

\* the request for the words before the candidate answers or fails
GenTopWords(c, fail) ==
  /\ calls[c].pc = "genTopWords"
  /\ fail => MayFail
  /\ Step(c, [calls[c] EXCEPT !.pc = "genBottomWords", !.topOk = ~fail])
  /\ faults' = IF fail THEN faults + 1 ELSE faults
  /\ UNCHANGED <<board, requests, today, nextSession, store>>

\* the request for the words after the candidate answers and the candidate
\* has enough words on each side: it is the secret word, and the two calls
\* of findBracketWord choose its brackets
GenBottomWords(c, topWord, bottomWord) ==
  /\ calls[c].pc = "genBottomWords"
  /\ calls[c].topOk
  /\ Suitable[calls[c].candidate]
  /\ topWord \in TopChoices[calls[c].candidate]
  /\ bottomWord \in BottomChoices[calls[c].candidate]
  /\ Step(c, [calls[c] EXCEPT !.pc = "genInsert",
                               !.secretId = calls[c].candidate,
                               !.candidate = 0, !.remaining = {},
                               !.topOk = FALSE,
                               !.topWord = topWord, !.bottomWord = bottomWord])
  /\ UNCHANGED <<board, requests, today, nextSession, store, faults>>

\* the request for the words after the candidate fails, or the candidate
\* has too few words on a side: the loop goes on with the candidate next
\* of the shuffled list, or the list is at its end and the call throws
GenNextCandidate(c, next, fail) ==
  /\ calls[c].pc = "genBottomWords"
  /\ fail => MayFail
  /\ fail \/ ~calls[c].topOk \/ ~Suitable[calls[c].candidate]
  /\ LET cr == calls[c]
     IN  IF cr.remaining = {}
         THEN /\ next = 0
              /\ Step(c, Finish(cr, Thrown))
         ELSE /\ next \in cr.remaining
              /\ Step(c, [cr EXCEPT !.pc = "genTopWords", !.candidate = next,
                                    !.remaining = cr.remaining \ {next},
                                    !.topOk = FALSE])
  /\ faults' = IF fail THEN faults + 1 ELSE faults
  /\ UNCHANGED <<board, requests, today, nextSession, store>>

\* an insert issued together with the update of secret_words, as with
\* Promise.all: the secret word is marked whether or not the row is created
GenInsertAndMark(c, fail) ==
  /\ calls[c].pc = "genInsert"
  /\ fail => MayFail
  /\ LET cr == calls[c]
         puzzleError == fail
         row == [id |-> Len(daily_puzzles) + 1, date |-> cr.todayStr,
                 topWord |-> cr.topWord, bottomWord |-> cr.bottomWord,
                 secretWordId |-> cr.secretId]
     IN  /\ used' = [used EXCEPT ![cr.secretId] = TRUE]
         /\ IF puzzleError
            THEN /\ Step(c, Finish(cr, Thrown))
                 /\ UNCHANGED daily_puzzles
            ELSE /\ Step(c, [cr EXCEPT !.pc = "genMark",
                                         !.puzzle = PuzzleData(row)])
                 /\ daily_puzzles' = Append(daily_puzzles, row)
  /\ faults' = IF fail THEN faults + 1 ELSE faults
  /\ UNCHANGED <<board, requests, today, nextSession, user_games>>

\* the insert into daily_puzzles: nothing is tested before it, and it is
\* refused only when the request fails (puzzleError)
GenInsert(c, fail) ==
  /\ calls[c].pc = "genInsert"
  /\ fail => MayFail
  /\ LET cr == calls[c]
         puzzleError == fail
         row == [id |-> Len(daily_puzzles) + 1, date |-> cr.todayStr,
                 topWord |-> cr.topWord, bottomWord |-> cr.bottomWord,
                 secretWordId |-> cr.secretId]
     IN  IF puzzleError
         THEN /\ Step(c, Finish(cr, Thrown))
              /\ UNCHANGED daily_puzzles
         ELSE /\ Step(c, [cr EXCEPT !.pc = "genMark",
                                      !.puzzle = PuzzleData(row)])
              /\ daily_puzzles' = Append(daily_puzzles, row)
  /\ faults' = IF fail THEN faults + 1 ELSE faults
  /\ UNCHANGED <<board, requests, today, nextSession, used, user_games>>

\* "Mark secret word as used": the result of the update is not looked at
GenMark(c, fail) ==
  /\ calls[c].pc = "genMark"
  /\ fail => MayFail
  /\ LET cr == calls[c]
     IN  /\ used' = IF fail THEN used ELSE [used EXCEPT ![cr.secretId] = TRUE]
         /\ Step(c, AfterPuzzle(cr, cr.puzzle))
  /\ faults' = IF fail THEN faults + 1 ELSE faults
  /\ UNCHANGED <<board, requests, today, nextSession, daily_puzzles, user_games>>

(***************************************************************************)
(* submitGuess after getTodaysPuzzle                                       *)
(***************************************************************************)
\* a handler that forgets the directions recorded so far
OrEmptyAlways(guessDirections) == <<>>

\* userGame.guessDirections || []
OrEmpty(guessDirections) == guessDirections

\* "if (guessLower <= currentTop)"
AtOrBeforeTop(guessLower, currentTop) == StrLessEq(guessLower, currentTop)

\* a bound test that lets the bottom word itself through
AtOrAfterBottomStrict(guessLower, currentBottom) == StrLess(currentBottom, guessLower)

\* "if (guessLower >= currentBottom)"
AtOrAfterBottom(guessLower, currentBottom) == StrLessEq(currentBottom, guessLower)

\* "if (guessLower === secretWord)"
IsCorrect(guessLower, secretWord) == guessLower = secretWord

\* a handler without the test for a completed game
AlreadyCompletedNever(userGame) == FALSE

\* the test "if (userGame.completed)" that ends the handler
AlreadyCompleted(userGame) == userGame.completed

\* the two comparisons with the secret word exchanged
DirectionOfSwapped(guessLower, secretWord) ==
  IF StrLess(secretWord, guessLower) THEN "up"
  ELSE IF StrLess(guessLower, secretWord) THEN "down"
  ELSE ""

\* the direction computed for a guess that is not the secret word
DirectionOf(guessLower, secretWord) ==
  IF StrLess(guessLower, secretWord) THEN "up"
  ELSE IF StrLess(secretWord, guessLower) THEN "down"
  ELSE ""

\* an update of a correct guess that leaves won as it is
WinUpdateNotWon(row, userGame, guess) ==
  [row EXCEPT !.guesses = Append(userGame.guesses, guess),
              !.guessDirections = Append(OrEmpty(userGame.guessDirections), "win"),
              !.completed = TRUE]

\* the row after the update of a correct guess, from the row in the table
\* and the row the handler has read
WinUpdate(row, userGame, guess) ==
  [row EXCEPT !.guesses = Append(userGame.guesses, guess),
              !.guessDirections = Append(OrEmpty(userGame.guessDirections), "win"),
              !.completed = TRUE,
              !.won = TRUE]

\* an update that does not record the guess
NarrowUpdateNoAppend(row, userGame, guess, secretWord) ==
  LET guessLower == toLowerCase(guess)
      direction == DirectionOf(guessLower, secretWord)
  IN  [row EXCEPT !.currentTop = IF direction = "up" THEN guessLower
                                 ELSE toLowerCase(userGame.currentTop),
                  !.currentBottom = IF direction = "down" THEN guessLower
                                    ELSE toLowerCase(userGame.currentBottom)]

\* an update that moves both bounds to the guess
NarrowUpdateBoth(row, userGame, guess, secretWord) ==
  LET guessLower == toLowerCase(guess)
  IN  [row EXCEPT !.currentTop = guessLower,
                  !.currentBottom = guessLower,
                  !.guesses = Append(userGame.guesses, guess),
                  !.guessDirections =
                     Append(OrEmpty(userGame.guessDirections),
                            DirectionOf(guessLower, secretWord))]

\* an update that ends the game with its second guess
NarrowUpdateGuessLimit(row, userGame, guess, secretWord) ==
  LET guessLower == toLowerCase(guess)
      direction == DirectionOf(guessLower, secretWord)
  IN  [row EXCEPT !.currentTop = IF direction = "up" THEN guessLower
                                 ELSE toLowerCase(userGame.currentTop),
                  !.currentBottom = IF direction = "down" THEN guessLower
                                    ELSE toLowerCase(userGame.currentBottom),
                  !.guesses = Append(userGame.guesses, guess),
                  !.guessDirections =
                     Append(OrEmpty(userGame.guessDirections), direction),
                  !.completed = Len(userGame.guesses) >= 1]

\* an update that appends to the row as it is in the table
NarrowUpdateAtomic(row, userGame, guess, secretWord) ==
  LET guessLower == toLowerCase(guess)
      direction == DirectionOf(guessLower, secretWord)
  IN  [row EXCEPT !.currentTop = IF direction = "up" THEN guessLower
                                 ELSE toLowerCase(row.currentTop),
                  !.currentBottom = IF direction = "down" THEN guessLower
                                    ELSE toLowerCase(row.currentBottom),
                  !.guesses = Append(row.guesses, guess),
                  !.guessDirections =
                     Append(OrEmpty(row.guessDirections), direction)]

\* the row after the update of any other accepted guess
NarrowUpdate(row, userGame, guess, secretWord) ==
  LET guessLower == toLowerCase(guess)
      currentTop == toLowerCase(userGame.currentTop)
      currentBottom == toLowerCase(userGame.currentBottom)
      direction == DirectionOf(guessLower, secretWord)
  IN  [row EXCEPT !.currentTop = IF direction = "up" THEN guessLower
                                 ELSE currentTop,
                  !.currentBottom = IF direction = "down" THEN guessLower
                                    ELSE currentBottom,
                  !.guesses = Append(userGame.guesses, guess),
                  !.guessDirections =
                     Append(OrEmpty(userGame.guessDirections), direction)]

\* every test between the two reads of Promise.all and the update
SgTests(read) ==
  LET userGame == read.userGame
      word == read.secretWord
      guessLower == toLowerCase(read.guess)
      currentTop == toLowerCase(userGame.currentTop)
      currentBottom == toLowerCase(userGame.currentBottom)
  IN  IF userGame = NoGame
      THEN Finish(read, Failure("Game not found", undefined))
      ELSE IF AlreadyCompleted(userGame)
      THEN Finish(read, Failure("Game already completed", undefined))
      ELSE IF word = undefined
      THEN Finish(read, Failure("Puzzle not found", undefined))
      ELSE IF AtOrBeforeTop(guessLower, currentTop)
      THEN Finish(read, Failure("Your guess must come after",
                                toUpperCase(currentTop)))
      ELSE IF AtOrAfterBottom(guessLower, currentBottom)
      THEN Finish(read, Failure("Your guess must come before",
                                toUpperCase(currentBottom)))
      ELSE [read EXCEPT !.pc = "sgUpdate"]

\* the read of user_games, one of the two requests of Promise.all, answers
\* or fails; the handler goes on when the other request has settled too
SgReadUserGame(c, fail) ==
  /\ calls[c].pc = "sgRead"
  /\ "userGame" \notin calls[c].settled
  /\ fail => MayFail
  /\ LET cr == calls[c]
         userGame == IF fail THEN NoGame
                     ELSE Single(GamesOf(cr.sessionId, cr.puzzle.id),
                                 user_games, NoGame)
         read == [cr EXCEPT !.userGame = userGame,
                            !.settled = cr.settled \cup {"userGame"}]
     IN  Step(c, IF "fullPuzzle" \in cr.settled THEN SgTests(read) ELSE read)
  /\ faults' = IF fail THEN faults + 1 ELSE faults
  /\ UNCHANGED <<board, requests, today, nextSession, store>>

\* the read of the puzzle's secret word, the other request of Promise.all,
\* answers or fails; the handler goes on when the read of user_games has
\* settled too
SgReadFullPuzzle(c, fail) ==
  /\ calls[c].pc = "sgRead"
  /\ "fullPuzzle" \notin calls[c].settled
  /\ fail => MayFail
  /\ LET cr == calls[c]
         read == [cr EXCEPT !.secretWord = fullPuzzleWord(cr.puzzle.id, fail),
                            !.settled = cr.settled \cup {"fullPuzzle"}]
     IN  Step(c, IF "userGame" \in cr.settled THEN SgTests(read) ELSE read)
  /\ faults' = IF fail THEN faults + 1 ELSE faults
  /\ UNCHANGED <<board, requests, today, nextSession, store>>

\* the update of the row by id, and the response
SgUpdate(c, fail) ==
  /\ calls[c].pc = "sgUpdate"
  /\ fail => MayFail
  /\ LET cr == calls[c]
         gid == cr.userGame.id
         guessLower == toLowerCase(cr.guess)
         secretWord == toLowerCase(cr.secretWord)
         win == IsCorrect(guessLower, secretWord)
         updatedGame ==
           IF win THEN WinUpdate(user_games[gid], cr.userGame, cr.guess)
           ELSE NarrowUpdate(user_games[gid], cr.userGame, cr.guess, secretWord)
     IN  IF fail
         THEN /\ Step(c,
                   Finish(cr, Failure("Failed to update game", undefined)))
              /\ UNCHANGED user_games
         ELSE /\ user_games' = [user_games EXCEPT ![gid] = updatedGame]
              /\ Step(c,
                   Finish(cr,
                     IF win
                     THEN Success("Congratulations! You guessed the word!",
                                  GameStateOf(updatedGame, cr.secretWord))
                     ELSE Success("", GameStateOf(updatedGame, undefined))))
  /\ faults' = IF fail THEN faults + 1 ELSE faults
  /\ UNCHANGED <<board, requests, today, nextSession, used, daily_puzzles>>

(***************************************************************************)
(* initializeGame and getUserGameState after getTodaysPuzzle               *)
(***************************************************************************)
\* the columns of a new user_games row that the insert leaves to the table
UserGameDefaults == [guessDirections |-> <<>>, completed |-> FALSE, won |-> FALSE]

\* a handler without the check: it goes on to the insert whatever the
\* select answers
IgSelectNoCheck(c, fail) ==
  /\ calls[c].pc = "igSelect"
  /\ fail => MayFail
  /\ Step(c, [calls[c] EXCEPT !.pc = "igInsert"])
  /\ faults' = IF fail THEN faults + 1 ELSE faults
  /\ UNCHANGED <<board, requests, today, nextSession, store>>

\* "Check if user game exists"
IgSelect(c, fail) ==
  /\ calls[c].pc = "igSelect"
  /\ fail => MayFail
  /\ LET cr == calls[c]
         userGame == IF fail THEN NoGame
                     ELSE Single(GamesOf(cr.sessionId, cr.puzzle.id),
                                 user_games, NoGame)
     IN  Step(c,
           IF userGame = NoGame THEN [cr EXCEPT !.pc = "igInsert"]
           ELSE IF NeedsSecret(userGame)
           THEN [cr EXCEPT !.pc = "igSecret", !.userGame = userGame]
           ELSE Finish([cr EXCEPT !.userGame = userGame],
                       Returned(GameStateOf(userGame, undefined))))
  /\ faults' = IF fail THEN faults + 1 ELSE faults
  /\ UNCHANGED <<board, requests, today, nextSession, store>>

\* a table that accepts a second row for a session and puzzle
GameTakenNever(sessionId, puzzleId) == FALSE

\* user_games is unique per (sessionId, dailyPuzzleId): the table refuses a
\* row for a pair that has one
GameTaken(sessionId, puzzleId) == GamesOf(sessionId, puzzleId) # {}

\* "Create new game state"
IgInsert(c, fail) ==
  /\ calls[c].pc = "igInsert"
  /\ fail => MayFail
  /\ LET cr == calls[c]
         error == fail \/ GameTaken(cr.sessionId, cr.puzzle.id)
         newGame == [id |-> Len(user_games) + 1, sessionId |-> cr.sessionId,
                     dailyPuzzleId |-> cr.puzzle.id,
                     currentTop |-> cr.puzzle.topWord,
                     currentBottom |-> cr.puzzle.bottomWord,
                     guesses |-> <<>>,
                     guessDirections |-> UserGameDefaults.guessDirections,
                     completed |-> UserGameDefaults.completed,
                     won |-> UserGameDefaults.won]
     IN  IF error
         THEN /\ Step(c, Finish(cr, ReturnedNull))
              /\ UNCHANGED user_games
         ELSE /\ user_games' = Append(user_games, newGame)
              /\ Step(c,
                   IF NeedsSecret(newGame)
                   THEN [cr EXCEPT !.pc = "igSecret", !.userGame = newGame]
                   ELSE Finish([cr EXCEPT !.userGame = newGame],
                               Returned(GameStateOf(newGame, undefined))))
  /\ faults' = IF fail THEN faults + 1 ELSE faults
  /\ UNCHANGED <<board, requests, today, nextSession, used, daily_puzzles>>

\* initializeGame: the request for the secret word of a completed game,
\* and the response
IgSecret(c, fail) ==
  /\ calls[c].pc = "igSecret"
  /\ fail => MayFail
  /\ Step(c, Finish(calls[c],
                    Returned(GameStateOf(calls[c].userGame,
                               fullPuzzleWord(calls[c].puzzle.id, fail)))))
  /\ faults' = IF fail THEN faults + 1 ELSE faults
  /\ UNCHANGED <<board, requests, today, nextSession, store>>

\* getUserGameState: the read of the row
GsSelect(c, fail) ==
  /\ calls[c].pc = "gsSelect"
  /\ fail => MayFail
  /\ LET cr == calls[c]
         userGame == IF fail THEN NoGame
                     ELSE Single(GamesOf(cr.sessionId, cr.puzzle.id),
                                 user_games, NoGame)
     IN  Step(c,
           IF userGame = NoGame THEN Finish(cr, ReturnedNull)
           ELSE IF NeedsSecret(userGame)
           THEN [cr EXCEPT !.pc = "gsSecret", !.userGame = userGame]
           ELSE Finish([cr EXCEPT !.userGame = userGame],
                       Returned(GameStateOf(userGame, undefined))))
  /\ faults' = IF fail THEN faults + 1 ELSE faults
  /\ UNCHANGED <<board, requests, today, nextSession, store>>

\* getUserGameState: the request for the secret word of a completed game,
\* and the response
GsSecret(c, fail) ==
  /\ calls[c].pc = "gsSecret"
  /\ fail => MayFail
  /\ Step(c, Finish(calls[c],
                    Returned(GameStateOf(calls[c].userGame,
                               fullPuzzleWord(calls[c].puzzle.id, fail)))))
  /\ faults' = IF fail THEN faults + 1 ELSE faults
  /\ UNCHANGED <<board, requests, today, nextSession, store>>

(***************************************************************************)
(* The clock.                                                              *)
(***************************************************************************)
\* midnight
NextDay ==
  /\ today < MaxDays
  /\ today' = today + 1
  /\ response' = Idle
  /\ UNCHANGED <<board, requests, cookie, nextSession, store, calls, faults>>

Next ==
  \/ \E c \in CallIds, cl \in Clients, guess \in GuessInputs, skip \in BOOLEAN :
       StartSubmitGuess(c, cl, guess, skip)
  \/ \E c \in CallIds, cl \in Clients : StartInitializeGame(c, cl)
  \/ \E c \in CallIds, cl \in Clients : StartGetUserGameState(c, cl)
  \/ \E c \in CallIds, cl \in Clients : StartGetTodaysPuzzle(c, cl)
  \/ \E c \in CallIds, fail \in BOOLEAN : SgValidate(c, fail)
  \/ \E c \in CallIds, fail \in BOOLEAN : Lookup1(c, fail)
  \/ \E c \in CallIds, fail \in BOOLEAN : Lookup2(c, fail)
  \/ \E c \in CallIds, s \in SecretIds \cup {0}, fail \in BOOLEAN :
       GenSelect(c, s, fail)
  \/ \E c \in CallIds, fail \in BOOLEAN : GenTopWords(c, fail)
  \/ \E c \in CallIds, s \in SecretIds :
       \E topWord \in TopChoices[s], bottomWord \in BottomChoices[s] :
         GenBottomWords(c, topWord, bottomWord)
  \/ \E c \in CallIds, next \in SecretIds \cup {0}, fail \in BOOLEAN :
       GenNextCandidate(c, next, fail)
  \/ \E c \in CallIds, fail \in BOOLEAN : GenInsert(c, fail)
  \/ \E c \in CallIds, fail \in BOOLEAN : GenMark(c, fail)
  \/ \E c \in CallIds, fail \in BOOLEAN : SgReadUserGame(c, fail)
  \/ \E c \in CallIds, fail \in BOOLEAN : SgReadFullPuzzle(c, fail)
  \/ \E c \in CallIds, fail \in BOOLEAN : SgUpdate(c, fail)
  \/ \E c \in CallIds, fail \in BOOLEAN : IgSelect(c, fail)
  \/ \E c \in CallIds, fail \in BOOLEAN : IgInsert(c, fail)
  \/ \E c \in CallIds, fail \in BOOLEAN : IgSecret(c, fail)
  \/ \E c \in CallIds, fail \in BOOLEAN : GsSelect(c, fail)
  \/ \E c \in CallIds, fail \in BOOLEAN : GsSecret(c, fail)
  \/ NextDay

Spec == Init /\ [][Next]_vars

(***************************************************************************)
(* The generator on a store seeded with all four secret words: one day,    *)
(* the handlers of initializeGame.  The secret word "sabre" has only words *)
(* of its own first letter after it, so that findBracketWord takes its     *)
(* last fallback.                                                          *)
(***************************************************************************)
InitGen ==
  /\ today = 1
  /\ cookie = [cl \in Clients |-> NoSession]
  /\ nextSession = 1
  /\ used = [s \in FullSeed |-> FALSE]
  /\ daily_puzzles = <<>>
  /\ user_games = <<>>
  /\ calls = [c \in CallIds |-> Idle]
  /\ response = Idle
  /\ requests = 0
  /\ faults = 0
  /\ board = Mounted(NoState)

\* a call of initializeGame begins on the fully seeded store: fewer than
\* MaxGenRequests calls have begun
GenStartInitializeGame(c, cl) ==
  /\ requests < MaxGenRequests
  /\ StartInitializeGame(c, cl)

NextGen ==
  \/ \E c \in CallIds, cl \in Clients : GenStartInitializeGame(c, cl)
  \/ \E c \in CallIds, fail \in BOOLEAN : Lookup1(c, fail)
  \/ \E c \in CallIds, fail \in BOOLEAN : Lookup2(c, fail)
  \/ \E c \in CallIds, s \in SecretIds \cup {0}, fail \in BOOLEAN :
       GenSelect(c, s, fail)
  \/ \E c \in CallIds, fail \in BOOLEAN : GenTopWords(c, fail)
  \/ \E c \in CallIds, s \in SecretIds :
       \E topWord \in TopChoices[s], bottomWord \in BottomChoices[s] :
         GenBottomWords(c, topWord, bottomWord)
  \/ \E c \in CallIds, next \in SecretIds \cup {0}, fail \in BOOLEAN :
       GenNextCandidate(c, next, fail)
  \/ \E c \in CallIds, fail \in BOOLEAN : GenInsert(c, fail)
  \/ \E c \in CallIds, fail \in BOOLEAN : GenMark(c, fail)
  \/ \E c \in CallIds, fail \in BOOLEAN : IgSelect(c, fail)
  \/ \E c \in CallIds, fail \in BOOLEAN : IgInsert(c, fail)

GenSpec == InitGen /\ [][NextGen]_vars

(***************************************************************************)
(* The Prisma variant of the server actions, on one day.  Prisma rejects   *)
(* (the call throws) when a query fails.                                   *)
(***************************************************************************)
\* take: 10 of the two findMany queries
TakeLimit == 10

\* Math.min(length, 5) of the two random picks
PickWindow == 5

\* findMany lt, orderBy desc, take: the nearest words below w
prismaTopWords(w) ==
  LET below == {dw \in dictionary : StrLess(dw, w)}
  IN  {dw \in below :
         Cardinality({e \in below : StrLess(dw, e)}) < TakeLimit}

\* findMany gt, orderBy asc, take: the nearest words above w
prismaBottomWords(w) ==
  LET above == {dw \in dictionary : StrLess(w, dw)}
  IN  {dw \in above :
         Cardinality({e \in above : StrLess(e, dw)}) < TakeLimit}

\* the words list[Math.floor(Math.random() * Math.min(length, 5))] can be:
\* the first entries of a list ordered away from the secret word
prismaPick(words, direction) ==
  IF direction = "before"
  THEN {w \in words : Cardinality({e \in words : StrLess(w, e)}) < PickWindow}
  ELSE {w \in words : Cardinality({e \in words : StrLess(e, w)}) < PickWindow}

PrismaTopChoices ==
  [s \in SecretIds |-> prismaPick(prismaTopWords(secret_word[s]), "before")]

PrismaBottomChoices ==
  [s \in SecretIds |-> prismaPick(prismaBottomWords(secret_word[s]), "after")]

\* the object getTodaysPuzzle returns for a row read with
\* include: { secretWord: true }
PrismaPuzzleData(row) ==
  [id |-> row.id, date |-> row.date, topWord |-> row.topWord,
   bottomWord |-> row.bottomWord,
   secretWord |-> secret_word[row.secretWordId]]

\* the GameState object built from a UserGame row
PrismaGameStateOf(row, secretWord) ==
  [id |-> row.id, currentTop |-> row.currentTop,
   currentBottom |-> row.currentBottom, guesses |-> row.guesses,
   completed |-> row.completed, won |-> row.won, secretWord |-> secretWord]

\* the handler's code after "await getTodaysPuzzle()", which has returned
\* the puzzle; a call of the exported getTodaysPuzzle returns it
PrismaAfterPuzzle(cr, puzzle) ==
  LET got == [cr EXCEPT !.puzzle = puzzle, !.secretId = 0,
                        !.topWord = undefined, !.bottomWord = undefined,
                        !.settled = {}]
  IN  CASE cr.op = "getTodaysPuzzle" ->
             Finish(got, [NoResult EXCEPT !.kind = "value"])
        [] cr.op = "getUserGameState" ->
             [got EXCEPT !.pc = "userGameFindUnique"]
        [] OTHER ->
             IF ~LengthOk(cr.guess)
             THEN Finish(got, Failure("Guess must be 5 letters", undefined))
             ELSE [got EXCEPT !.pc = "dictionaryFindUnique"]

\* a handler of the variant from getOrCreateSessionId, which sets the cookie
\* of a new session, to the first query of getTodaysPuzzle
PrismaEnter(op, cl, guess) ==
  LET fresh == cookie[cl] = NoSession
  IN  [Idle EXCEPT !.op = op, !.client = cl, !.guess = guess,
                   !.reqCookie = cookie[cl], !.pc = "findUnique",
                   !.todayStr = today,
                   !.sessionId = IF fresh THEN nextSession ELSE cookie[cl],
                   !.setCookie = IF fresh THEN nextSession ELSE NoSession]

\* a call of the variant may begin: a slot is free and fewer than
\* MaxPrismaRequests calls have begun
PrismaFree(c) == Free(c) /\ requests < MaxPrismaRequests

\* a call of getTodaysPuzzle begins
PrismaGetTodaysPuzzle(c, cl) ==
  /\ PrismaFree(c)
  /\ Step(c, [Idle EXCEPT !.op = "getTodaysPuzzle", !.client = cl,
                          !.reqCookie = cookie[cl], !.pc = "findUnique",
                          !.todayStr = today])
  /\ requests' = requests + 1
  /\ UNCHANGED <<board, today, nextSession, store, faults>>

\* a call of getUserGameState begins
PrismaGetUserGameState(c, cl) ==
  /\ PrismaFree(c)
  /\ cookie[cl] = NoSession => nextSession <= MaxSessions
  /\ Step(c, PrismaEnter("getUserGameState", cl, undefined))
  /\ nextSession' = IF cookie[cl] = NoSession THEN nextSession + 1
                    ELSE nextSession
  /\ requests' = requests + 1
  /\ UNCHANGED <<board, today, store, faults>>

\* a call of submitGuess begins
PrismaSubmitGuess(c, cl, guess) ==
  /\ PrismaFree(c)
  /\ cookie[cl] = NoSession => nextSession <= MaxSessions
  /\ Step(c, PrismaEnter("submitGuess", cl, guess))
  /\ nextSession' = IF cookie[cl] = NoSession THEN nextSession + 1
                    ELSE nextSession
  /\ requests' = requests + 1
  /\ UNCHANGED <<board, today, store, faults>>

\* dailyPuzzle.findUnique by date; an existing puzzle is returned
PrismaFindUnique(c, fail) ==
  /\ calls[c].pc = "findUnique"
  /\ fail => MayFail
  /\ LET cr == calls[c]
         row == Single(PuzzlesOn(cr.todayStr), daily_puzzles, NoPuzzle)
     IN  Step(c,
           IF fail THEN Finish(cr, Thrown)
           ELSE IF row = NoPuzzle THEN [cr EXCEPT !.pc = "findFirst"]
           ELSE PrismaAfterPuzzle(cr, PrismaPuzzleData(row)))
  /\ faults' = IF fail THEN faults + 1 ELSE faults
  /\ UNCHANGED <<board, requests, today, nextSession, store>>

\* secretWord.findFirst where used is false: any unused row
PrismaFindFirst(c, s, fail) ==
  /\ calls[c].pc = "findFirst"
  /\ fail => MayFail
  /\ LET cr == calls[c]
         unused == {u \in DOMAIN used : ~used[u]}
     IN  /\ unused # {} => s \in unused
         /\ Step(c,
              IF fail \/ unused = {} THEN Finish(cr, Thrown)
              ELSE [cr EXCEPT !.pc = "findManyTop", !.secretId = s])
  /\ faults' = IF fail THEN faults + 1 ELSE faults
  /\ UNCHANGED <<board, requests, today, nextSession, store>>

\* dictionary.findMany for the words before the secret word
PrismaFindManyTop(c, fail) ==
  /\ calls[c].pc = "findManyTop"
  /\ fail => MayFail
  /\ Step(c, IF fail THEN Finish(calls[c], Thrown)
             ELSE [calls[c] EXCEPT !.pc = "findManyBottom"])
  /\ faults' = IF fail THEN faults + 1 ELSE faults
  /\ UNCHANGED <<board, requests, today, nextSession, store>>

\* dictionary.findMany for the words after the secret word and the test of
\* the two lists, when the query fails or a list is empty: throws
PrismaFindManyBottomNone(c, fail) ==
  /\ calls[c].pc = "findManyBottom"
  /\ fail => MayFail
  /\ \/ fail
     \/ PrismaTopChoices[calls[c].secretId] = {}
     \/ PrismaBottomChoices[calls[c].secretId] = {}
  /\ Step(c, Finish(calls[c], Thrown))
  /\ faults' = IF fail THEN faults + 1 ELSE faults
  /\ UNCHANGED <<board, requests, today, nextSession, store>>

\* dictionary.findMany for the words after the secret word and the two
\* random picks: topWord and bottomWord are the words Math.random() selects;
\* the two queries of Promise.all are sent
PrismaFindManyBottom(c, topWord, bottomWord) ==
  /\ calls[c].pc = "findManyBottom"
  /\ topWord \in PrismaTopChoices[calls[c].secretId]
  /\ bottomWord \in PrismaBottomChoices[calls[c].secretId]
  /\ Step(c, [calls[c] EXCEPT !.pc = "create", !.topWord = topWord,
                               !.bottomWord = bottomWord])
  /\ UNCHANGED <<board, requests, today, nextSession, store, faults>>

\* Promise.all rejects: the call throws, and the query of the two that has
\* not settled stays in flight
PrismaReject(c, cr) ==
  /\ calls' = [calls EXCEPT ![c] = IF cr.settled = {"create", "update"}
                                   THEN Idle
                                   ELSE [cr EXCEPT !.pc = "orphan"]]
  /\ response' = Finish(cr, Thrown)
  /\ cookie' = cookie

\* a query settles whose call has thrown already
PrismaOrphanSettles(c) ==
  /\ calls' = [calls EXCEPT ![c] = Idle]
  /\ response' = Idle
  /\ cookie' = cookie

\* dailyPuzzle.findUnique({ where: { date } }) selects by date alone, which
\* the Prisma client admits only for a unique field of the model: in this
\* variant a create for a date that has a row is rejected
PrismaDateTaken(dateStr) == PuzzlesOn(dateStr) # {}

\* dailyPuzzle.create, one of the two queries of Promise.all, settles
PrismaCreate(c, fail) ==
  /\ calls[c].pc \in {"create", "orphan"}
  /\ "create" \notin calls[c].settled
  /\ fail => MayFail
  /\ LET refused == fail \/ PrismaDateTaken(calls[c].todayStr)
         row == [id |-> Len(daily_puzzles) + 1, date |-> calls[c].todayStr,
                 topWord |-> calls[c].topWord,
                 bottomWord |-> calls[c].bottomWord,
                 secretWordId |-> calls[c].secretId]
         cr == [calls[c] EXCEPT !.settled = calls[c].settled \cup {"create"},
                                !.puzzle = IF refused THEN NoPuzzle
                                           ELSE PrismaPuzzleData(row)]
     IN  /\ daily_puzzles' = IF refused THEN daily_puzzles
                             ELSE Append(daily_puzzles, row)
         /\ IF calls[c].pc = "orphan" THEN PrismaOrphanSettles(c)
            ELSE IF refused THEN PrismaReject(c, cr)
            ELSE IF "update" \in calls[c].settled
            THEN Step(c, PrismaAfterPuzzle(cr, cr.puzzle))
            ELSE Step(c, cr)
  /\ faults' = IF fail THEN faults + 1 ELSE faults
  /\ UNCHANGED <<board, requests, today, nextSession, used, user_games>>

\* secretWord.update, the other query of Promise.all, settles
PrismaUpdate(c, fail) ==
  /\ calls[c].pc \in {"create", "orphan"}
  /\ "update" \notin calls[c].settled
  /\ fail => MayFail
  /\ LET cr == [calls[c] EXCEPT !.settled = calls[c].settled \cup {"update"}]
     IN  /\ used' = IF fail THEN used
                    ELSE [used EXCEPT ![cr.secretId] = TRUE]
         /\ IF calls[c].pc = "orphan" THEN PrismaOrphanSettles(c)
            ELSE IF fail THEN PrismaReject(c, cr)
            ELSE IF "create" \in calls[c].settled
            THEN Step(c, PrismaAfterPuzzle(cr, cr.puzzle))
            ELSE Step(c, cr)
  /\ faults' = IF fail THEN faults + 1 ELSE faults
  /\ UNCHANGED <<board, requests, today, nextSession, daily_puzzles,
                 user_games>>

\* userGame.findUnique by session and puzzle
PrismaUserGameOf(cr) ==
  Single(GamesOf(cr.sessionId, cr.puzzle.id), user_games, NoGame)

\* getUserGameState: userGame.findUnique, and the return of an existing game
PrismaGsFindUnique(c, fail) ==
  /\ calls[c].pc = "userGameFindUnique"
  /\ fail => MayFail
  /\ LET cr == calls[c]
         userGame == PrismaUserGameOf(cr)
     IN  Step(c,
           IF fail THEN Finish(cr, Thrown)
           ELSE IF userGame = NoGame THEN [cr EXCEPT !.pc = "userGameCreate"]
           ELSE Finish([cr EXCEPT !.userGame = userGame],
                  Returned(PrismaGameStateOf(userGame,
                             IF userGame.completed THEN cr.puzzle.secretWord
                             ELSE undefined))))
  /\ faults' = IF fail THEN faults + 1 ELSE faults
  /\ UNCHANGED <<board, requests, today, nextSession, store>>

\* getUserGameState: userGame.create ("Create new game state") and the
\* return of the new game
PrismaGsCreate(c, fail) ==
  /\ calls[c].pc = "userGameCreate"
  /\ fail => MayFail
  /\ LET cr == calls[c]
         refused == fail \/ GameTaken(cr.sessionId, cr.puzzle.id)
         newGame == [id |-> Len(user_games) + 1, sessionId |-> cr.sessionId,
                     dailyPuzzleId |-> cr.puzzle.id,
                     currentTop |-> cr.puzzle.topWord,
                     currentBottom |-> cr.puzzle.bottomWord,
                     guesses |-> <<>>, completed |-> FALSE, won |-> FALSE]
     IN  IF refused
         THEN /\ Step(c, Finish(cr, Thrown))
              /\ UNCHANGED user_games
         ELSE /\ user_games' = Append(user_games, newGame)
              /\ Step(c, Finish([cr EXCEPT !.userGame = newGame],
                           Returned(PrismaGameStateOf(newGame, undefined))))
  /\ faults' = IF fail THEN faults + 1 ELSE faults
  /\ UNCHANGED <<board, requests, today, nextSession, used, daily_puzzles>>

\* submitGuess: dictionary.findUnique ("Check if word exists in dictionary")
PrismaSgDictionary(c, fail) ==
  /\ calls[c].pc = "dictionaryFindUnique"
  /\ fail => MayFail
  /\ LET cr == calls[c]
     IN  Step(c,
           IF fail THEN Finish(cr, Thrown)
           ELSE IF toLowerCase(cr.guess) \notin dictionary
           THEN Finish(cr, Failure("Word not in dictionary", undefined))
           ELSE [cr EXCEPT !.pc = "sgFindUnique"])
  /\ faults' = IF fail THEN faults + 1 ELSE faults
  /\ UNCHANGED <<board, requests, today, nextSession, store>>

\* submitGuess: userGame.findUnique and the two tests before the update
PrismaSgFindUnique(c, fail) ==
  /\ calls[c].pc = "sgFindUnique"
  /\ fail => MayFail
  /\ LET cr == calls[c]
         userGame == PrismaUserGameOf(cr)
     IN  Step(c,
           IF fail THEN Finish(cr, Thrown)
           ELSE IF userGame = NoGame
           THEN Finish(cr, Failure("Game not found", undefined))
           ELSE IF userGame.completed
           THEN Finish([cr EXCEPT !.userGame = userGame],
                       Failure("Game already completed", undefined))
           ELSE [cr EXCEPT !.pc = "userGameUpdate", !.userGame = userGame])
  /\ faults' = IF fail THEN faults + 1 ELSE faults
  /\ UNCHANGED <<board, requests, today, nextSession, store>>

\* the row after userGame.update, from the row in the table and the row the
\* handler has read; no test of the bounds comes before it
PrismaUpdatedGame(row, userGame, guess, secretWord) ==
  LET guessLower == toLowerCase(guess)
      currentTop == toLowerCase(userGame.currentTop)
      currentBottom == toLowerCase(userGame.currentBottom)
  IN  IF guessLower = secretWord
      THEN [row EXCEPT !.guesses = Append(userGame.guesses, guess),
                       !.completed = TRUE, !.won = TRUE]
      ELSE [row EXCEPT !.currentTop = IF StrLess(guessLower, secretWord)
                                      THEN guessLower ELSE currentTop,
                       !.currentBottom = IF StrLess(secretWord, guessLower)
                                         THEN guessLower ELSE currentBottom,
                       !.guesses = Append(userGame.guesses, guess)]

\* submitGuess: userGame.update by id and the response
PrismaSgUpdate(c, fail) ==
  /\ calls[c].pc = "userGameUpdate"
  /\ fail => MayFail
  /\ LET cr == calls[c]
         gid == cr.userGame.id
         guessLower == toLowerCase(cr.guess)
         secretWord == toLowerCase(cr.puzzle.secretWord)
         updatedGame == PrismaUpdatedGame(user_games[gid], cr.userGame,
                                          cr.guess, secretWord)
     IN  IF fail
         THEN /\ Step(c, Finish(cr, Thrown))
              /\ UNCHANGED user_games
         ELSE /\ user_games' = [user_games EXCEPT ![gid] = updatedGame]
              /\ Step(c,
                   Finish(cr,
                     IF guessLower = secretWord
                     THEN Success("Congratulations! You guessed the word!",
                            PrismaGameStateOf(updatedGame, cr.puzzle.secretWord))
                     ELSE Success(IF StrLess(guessLower, secretWord)
                                  THEN "Too low! Try higher."
                                  ELSE "Too high! Try lower.",
                            PrismaGameStateOf(updatedGame, undefined))))
  /\ faults' = IF fail THEN faults + 1 ELSE faults
  /\ UNCHANGED <<board, requests, today, nextSession, used, daily_puzzles>>

NextPrisma ==
  \/ \E c \in CallIds, cl \in Clients : PrismaGetTodaysPuzzle(c, cl)
  \/ \E c \in CallIds, cl \in Clients : PrismaGetUserGameState(c, cl)
  \/ \E c \in CallIds, cl \in Clients, guess \in GuessInputs :
       PrismaSubmitGuess(c, cl, guess)
  \/ \E c \in CallIds, fail \in BOOLEAN : PrismaFindUnique(c, fail)
  \/ \E c \in CallIds, s \in SecretIds, fail \in BOOLEAN :
       PrismaFindFirst(c, s, fail)
  \/ \E c \in CallIds, fail \in BOOLEAN : PrismaFindManyTop(c, fail)
  \/ \E c \in CallIds, fail \in BOOLEAN : PrismaFindManyBottomNone(c, fail)
  \/ \E c \in CallIds, s \in SecretIds :
       \E topWord \in PrismaTopChoices[s],
          bottomWord \in PrismaBottomChoices[s] :
         PrismaFindManyBottom(c, topWord, bottomWord)
  \/ \E c \in CallIds, fail \in BOOLEAN : PrismaCreate(c, fail)
  \/ \E c \in CallIds, fail \in BOOLEAN : PrismaUpdate(c, fail)
  \/ \E c \in CallIds, fail \in BOOLEAN : PrismaGsFindUnique(c, fail)
  \/ \E c \in CallIds, fail \in BOOLEAN : PrismaGsCreate(c, fail)
  \/ \E c \in CallIds, fail \in BOOLEAN : PrismaSgDictionary(c, fail)
  \/ \E c \in CallIds, fail \in BOOLEAN : PrismaSgFindUnique(c, fail)
  \/ \E c \in CallIds, fail \in BOOLEAN : PrismaSgUpdate(c, fail)

PrismaSpec == Init /\ [][NextPrisma]_vars

(***************************************************************************)
(* A mounted GameBoard: the events of its user and the returns of the      *)
(* server actions it has called.  What a server action returns is an input *)
(* here.                                                                   *)
(***************************************************************************)
server == <<today, cookie, nextSession, used, daily_puzzles, user_games,
            calls, response, requests, faults>>

\* the initialState prop: null, a game in progress or a completed game
InitBoard ==
  /\ today = 1
  /\ cookie = [cl \in Clients |-> NoSession]
  /\ nextSession = 1
  /\ used = [s \in SmallSeed |-> FALSE]
  /\ daily_puzzles = <<>>
  /\ user_games = <<>>
  /\ calls = [c \in CallIds |-> Idle]
  /\ response = Idle
  /\ requests = 0
  /\ faults = 0
  /\ board \in {Mounted(NoState), Mounted(GameInProgress), Mounted(GameWon)}

\* the results submitGuess can hand back: a rejection, an accepted guess, a
\* winning guess, or an exception
SubmitResults ==
  {Failure("Word not in dictionary", undefined),
   Failure("Game not found", undefined),
   Success("", GameInProgress),
   Success("Congratulations! You guessed the word!", GameWon),
   Thrown}

\* a click on a key of the on-screen Keyboard, whose buttons are disabled
\* while a transition is pending or the game is completed; then the render
\* and the effect, which runs when the handler has set currentGuess (a
\* letter on a full row, too)
KeyboardClick(key) ==
  /\ board.gameState # NoState
  /\ ~(isPending(board) \/ board.gameState.completed)
  /\ handleKeyPress(board, key).submitting <= MaxInFlight
  /\ board' = preValidateEffect(setCurrentGuessCalled(board, key),
                              handleKeyPress(board, key))
  /\ UNCHANGED server

\* a keydown event on the board; then the render and the effect, which
\* runs when the handler has set currentGuess (a letter on a full row, too)
KeyDown(key) ==
  /\ board.gameState # NoState
  /\ handleKeyDown(board, key).submitting <= MaxInFlight
  /\ board' = preValidateEffect(setCurrentGuessCalledOnKeyDown(board, key),
                              handleKeyDown(board, key))
  /\ UNCHANGED server

\* a click on a tile, whose button is disabled when the game is completed
TileClick(index) ==
  /\ board.gameState # NoState
  /\ ~board.gameState.completed
  /\ board' = preValidateEffect(TRUE, handleTileClick(board, index))
  /\ UNCHANGED server

\* initializeGame, called by the mount effect, returns or throws
InitializeGameReturns(initialized, throws) ==
  /\ board.initializing
  /\ board' =
       IF throws \/ initialized = NoState
       THEN [board EXCEPT !.initializing = FALSE]
       ELSE preValidateEffect(
              \/ board.gameState = NoState
              \/ board.gameState.completed # initialized.completed,
              [board EXCEPT !.initializing = FALSE,
                            !.gameState = initialized,
                            !.preValidationCache = {}])
  /\ UNCHANGED server

\* validateWord, called by preValidateWord, returns (its dictionary request
\* answered or failed) or throws
ValidateWordReturns(throws, fail) ==
  /\ board.isPreValidating
  /\ LET word == board.validating
         validationResult == validateWord(word, fail)
         entry == [word |-> word, isValid |-> validationResult.success,
                   message |-> validationResult.message]
     IN  board' =
           [board EXCEPT
              !.isPreValidating = FALSE,
              !.validating = undefined,
              !.preValidationCache =
                IF throws THEN @
                ELSE cacheDelete(@, word) \cup {entry}]
  /\ UNCHANGED server

\* a call of submitGuess returns: the rest of the transition of
\* handleKeyPress
SubmitGuessReturns(result) ==
  /\ board.submitting > 0
  /\ board' =
       IF result.kind = "throw"
       THEN [board EXCEPT !.submitting = @ - 1]
       ELSE LET shown == [board EXCEPT
                            !.submitting = @ - 1,
                            !.message = IF ~result.success THEN result.message
                                        ELSE NoMessage,
                            !.preValidationCache = {}]
            IN  IF result.success /\ result.newState # NoState
                THEN preValidateEffect(TRUE,
                       [shown EXCEPT
                          !.gameState = result.newState,
                          !.currentGuess =
                            [i \in TileIndexes |-> EmptyString]])
                ELSE shown
  /\ UNCHANGED server

NextBoard ==
  \/ \E key \in KEYBOARD_ROWS : KeyboardClick(key)
  \/ \E key \in EventKeys : KeyDown(key)
  \/ \E index \in TileIndexes : TileClick(index)
  \/ \E initialized \in {NoState, GameInProgress, GameWon},
        throws \in BOOLEAN :
       InitializeGameReturns(initialized, throws)
  \/ \E throws \in BOOLEAN, fail \in BOOLEAN :
       ValidateWordReturns(throws, fail)
  \/ \E result \in SubmitResults : SubmitGuessReturns(result)

BoardSpec == InitBoard /\ [][NextBoard]_vars

(***************************************************************************)
(* Properties.  A property of one step of a handler is stated over the     *)
(* step: HandlerStep(c) says that handler c took it, After(c) is the       *)
(* handler with its locals after the step (and its result, once it has     *)
(* returned).                                                              *)
(***************************************************************************)
Games == 1..Len(user_games)

GameSecret(gid) == SecretOf(user_games[gid].dailyPuzzleId)

Last(seq) == seq[Len(seq)]

HandlerStep(c) == calls[c].pc # "idle" /\ calls'[c] # calls[c]

After(c) == IF calls'[c].pc = "idle" THEN response' ELSE calls'[c]

\* handler c of submitGuess performs its update and the update succeeds
UpdateSucceeds(c) ==
  /\ calls[c].pc = "sgUpdate"
  /\ HandlerStep(c)
  /\ After(c).result.success

\* no other handler has written the row since handler c read it
Undisturbed(c) == user_games[calls[c].userGame.id] = calls[c].userGame

\* the second of handler c's two reads settles in this step
ReadsSettle(c) ==
  /\ calls[c].pc = "sgRead"
  /\ HandlerStep(c)
  /\ After(c).settled = {"userGame", "fullPuzzle"}

\* handler c of submitGuess has performed its two reads, both answered, and
\* the game it read is in progress
ReadsGameInProgress(c) ==
  /\ ReadsSettle(c)
  /\ After(c).userGame # NoGame
  /\ After(c).secretWord # undefined
  /\ ~After(c).userGame.completed

\* C1: in every user_games row that is not completed, currentTop is before
\* the secret word of the row's puzzle and currentBottom is after it, in
\* the order of the strings.
C1_SecretBetweenBounds ==
  \A gid \in Games :
    ~user_games[gid].completed =>
      /\ StrLess(user_games[gid].currentTop, GameSecret(gid))
      /\ StrLess(GameSecret(gid), user_games[gid].currentBottom)

\* a game in progress whose two bounds have both moved
C1_Witness ==
  \E gid \in Games :
    /\ ~user_games[gid].completed
    /\ user_games[gid].currentTop # daily_puzzles[user_games[gid].dailyPuzzleId].topWord
    /\ user_games[gid].currentBottom # daily_puzzles[user_games[gid].dailyPuzzleId].bottomWord

\* C2: when submitGuess succeeds with a guess g (in lower case), on a row
\* that no other handler has written since this one read it, exactly one
\* of these holds afterwards: currentTop is g, currentBottom is g, the game
\* is won; and guesses and guessDirections are each one element longer.
C2_OneOutcomeOneElement ==
  [][\A c \in CallIds :
       UpdateSucceeds(c) /\ Undisturbed(c) =>
         LET gid == calls[c].userGame.id
             g == toLowerCase(calls[c].guess)
             before == user_games[gid]
             after == user_games'[gid]
             topIsGuess == after.currentTop = g
             bottomIsGuess == after.currentBottom = g
         IN  /\ \/ topIsGuess /\ ~bottomIsGuess /\ ~after.won
                \/ ~topIsGuess /\ bottomIsGuess /\ ~after.won
                \/ ~topIsGuess /\ ~bottomIsGuess /\ after.won
             /\ Len(after.guesses) = Len(before.guesses) + 1
             /\ Len(after.guessDirections) = Len(before.guessDirections) + 1]_vars

\* a submitGuess has just succeeded
C2_Witness ==
  /\ response.op = "submitGuess"
  /\ response.result.success
  /\ Len(response.result.newState.guesses) = 2

\* C3: when submitGuess reads a game in progress and the guess (in lower
\* case) is not after currentTop or not before currentBottom, the handler
\* returns success=false with the message of the bound that is violated,
\* and no row of user_games changes.
C3_OutOfBoundsRejected ==
  [][\A c \in CallIds :
       ReadsGameInProgress(c) =>
         LET g == toLowerCase(calls[c].guess)
             top == toLowerCase(After(c).userGame.currentTop)
             bottom == toLowerCase(After(c).userGame.currentBottom)
         IN  /\ StrLessEq(g, top) =>
                  /\ After(c).pc = "done"
                  /\ ~After(c).result.success
                  /\ After(c).result.message =
                       [text |-> "Your guess must come after",
                        word |-> toUpperCase(top)]
                  /\ user_games' = user_games
             /\ StrLessEq(bottom, g) =>
                  /\ After(c).pc = "done"
                  /\ ~After(c).result.success
                  /\ After(c).result.message =
                       [text |-> "Your guess must come before",
                        word |-> toUpperCase(bottom)]
                  /\ user_games' = user_games]_vars

\* a guess equal to a bottom word that an earlier guess has set is rejected
C3_Witness ==
  /\ response.op = "submitGuess"
  /\ response.result.message.text = "Your guess must come before"
  /\ toLowerCase(response.guess) = response.userGame.currentBottom
  /\ Len(response.userGame.guesses) > 0

\* the game of the scenario, as handler c has read it
CabinScenario(c) ==
  /\ calls[c].userGame.currentTop = apple
  /\ calls[c].userGame.currentBottom = chair
  /\ toLowerCase(calls[c].secretWord) = bingo
  /\ calls[c].guess = cabin

\* C4, as the claim states it: with top "apple", bottom "chair", secret
\* "bingo", the guess "cabin" becomes the new top with direction "up", and
\* the game stays in progress.
C4_CabinBecomesTop ==
  [][\A c \in CallIds :
       UpdateSucceeds(c) /\ Undisturbed(c) /\ CabinScenario(c) =>
         LET after == user_games'[calls[c].userGame.id]
         IN  /\ after.currentTop = cabin
             /\ Last(after.guessDirections) = "up"
             /\ ~after.completed]_vars

\* C4, amended: "cabin" is after "bingo", so the guess "cabin" becomes the
\* new bottom with direction "down"; the top stays "apple" and the game
\* stays in progress.
C4_CabinBecomesBottom ==
  [][\A c \in CallIds :
       UpdateSucceeds(c) /\ Undisturbed(c) /\ CabinScenario(c) =>
         LET after == user_games'[calls[c].userGame.id]
         IN  /\ after.currentBottom = cabin
             /\ after.currentTop = apple
             /\ Last(after.guessDirections) = "down"
             /\ Last(after.guesses) = cabin
             /\ ~after.completed
             /\ ~after.won]_vars

\* the guess "cabin" has just been accepted in the scenario
C4_Witness ==
  /\ response.op = "submitGuess"
  /\ response.result.success
  /\ response.guess = cabin
  /\ response.userGame.currentTop = apple
  /\ response.userGame.currentBottom = chair
  /\ toLowerCase(response.secretWord) = bingo

\* C5: when the update of a guess that equals the secret word in lower
\* case succeeds, the row is completed and won, its last guess is the
\* guess as sent and its last direction is "win", currentTop and
\* currentBottom are as before the update, and the response is a success
\* that carries the secret word; on a row no other handler has written in
\* between, guesses and guessDirections are the old ones with one element
\* appended.
C5_CorrectGuessWins ==
  [][\A c \in CallIds :
       /\ UpdateSucceeds(c)
       /\ toLowerCase(calls[c].guess) = toLowerCase(calls[c].secretWord)
       => LET gid == calls[c].userGame.id
              before == user_games[gid]
              after == user_games'[gid]
              newState == After(c).result.newState
          IN  /\ after.completed /\ after.won
              /\ Last(after.guesses) = calls[c].guess
              /\ Last(after.guessDirections) = "win"
              /\ after.currentTop = before.currentTop
              /\ after.currentBottom = before.currentBottom
              /\ After(c).result.kind = "value"
              /\ newState.secretWord = GameSecret(gid)
              /\ newState.completed /\ newState.won
              /\ newState.guesses = after.guesses
              /\ Undisturbed(c) =>
                   /\ after.guesses = Append(before.guesses, calls[c].guess)
                   /\ after.guessDirections =
                        Append(before.guessDirections, "win")]_vars

\* a guess in upper case has just won the game
C5_Witness ==
  /\ response.op = "submitGuess"
  /\ response.result.success
  /\ response.result.newState.won
  /\ response.guess = BINGO
  /\ response.result.newState.secretWord = bingo

\* C6: when the update of a guess g (in lower case) that is not the secret
\* word succeeds, the direction appended is "up" and currentTop is g when g
\* is before the secret word, and the direction is "down" and
\* currentBottom is g when g is after it; the direction is never empty.
\* On a row no other handler has written in between, the other bound is
\* unchanged and completed and won stay false.
C6_NarrowsOneBound ==
  [][\A c \in CallIds :
       /\ UpdateSucceeds(c)
       /\ toLowerCase(calls[c].guess) # toLowerCase(calls[c].secretWord)
       => LET gid == calls[c].userGame.id
              g == toLowerCase(calls[c].guess)
              secret == toLowerCase(calls[c].secretWord)
              before == user_games[gid]
              after == user_games'[gid]
          IN  /\ Last(after.guessDirections) # ""
              /\ StrLess(g, secret) =>
                   /\ after.currentTop = g
                   /\ Last(after.guessDirections) = "up"
                   /\ Undisturbed(c) => after.currentBottom = before.currentBottom
              /\ StrLess(secret, g) =>
                   /\ after.currentBottom = g
                   /\ Last(after.guessDirections) = "down"
                   /\ Undisturbed(c) => after.currentTop = before.currentTop
              /\ Undisturbed(c) => ~after.completed /\ ~after.won]_vars

\* a guess before the secret word has just moved the top
C6_Witness ==
  /\ response.op = "submitGuess"
  /\ response.result.success
  /\ Last(response.result.newState.guessDirections) = "up"
  /\ response.result.newState.currentTop = toLowerCase(response.guess)
  /\ ~response.result.newState.completed

\* C7: in every user_games row, guesses and guessDirections have the same
\* length.
C7_SameLength ==
  \A gid \in Games :
    Len(user_games[gid].guesses) = Len(user_games[gid].guessDirections)

\* a row with two guesses
C7_Witness ==
  \E gid \in Games : Len(user_games[gid].guesses) = 2

\* C8: a completed row stays completed and won; a submitGuess that reads a
\* completed row returns success=false with "Game already completed" and
\* no row of user_games changes.
C8_CompletedIsTerminal ==
  [][/\ \A gid \in Games :
          /\ user_games[gid].completed => user_games'[gid].completed
          /\ user_games[gid].won => user_games'[gid].won
     /\ \A c \in CallIds :
          /\ ReadsSettle(c)
          /\ After(c).userGame # NoGame
          /\ After(c).userGame.completed
          => /\ After(c).pc = "done"
             /\ After(c).result =
                  Failure("Game already completed", undefined)
             /\ user_games' = user_games]_vars

\* a guess on a game that is won has just been turned down
C8_Witness ==
  /\ response.op = "submitGuess"
  /\ response.result.message.text = "Game already completed"
  /\ user_games[response.userGame.id].won

\* C9: a submitGuess whose guess has not 5 characters returns "Guess must
\* be 5 letters" in its first step, before any request to the store: no
\* table, no cookie and no session id changes, and the response sets no
\* cookie.
C9_WrongLengthTouchesNothing ==
  [][\A c \in CallIds :
       /\ calls[c].pc = "idle"
       /\ requests' # requests
       /\ Free(c)
       /\ After(c).op = "submitGuess"
       /\ Len(After(c).guess) # GuessLength
       => /\ After(c).pc = "done"
          /\ After(c).result = Failure("Guess must be 5 letters", undefined)
          /\ After(c).setCookie = NoSession
          /\ After(c).sessionId = NoSession
          /\ UNCHANGED <<store, cookie, nextSession, faults>>]_vars

\* the guess "zz" has just been turned down
C9_Witness ==
  /\ response.op = "submitGuess"
  /\ response.guess = zz
  /\ response.result.message.text = "Guess must be 5 letters"

\* C10: a value returned by initializeGame, getUserGameState or
\* submitGuess carries a secret word only when the game in it is
\* completed.
C10_SecretOnlyWhenCompleted ==
  /\ response.op \in {"initializeGame", "getUserGameState", "submitGuess"}
  /\ response.result.newState.secretWord # undefined
  => response.result.newState.completed

\* initializeGame has just returned a completed game with its secret word
C10_Witness ==
  /\ response.op = "initializeGame"
  /\ response.result.newState.completed
  /\ response.result.newState.secretWord = bingo

\* C11, as the claim states it: no call of a server action ends by throwing
\* an exception to its caller; every failure comes back as a value.
C11_NoExceptionCrossesBoundary ==
  response.pc = "done" => response.result.kind # "throw"

\* the rows of daily_puzzles for the day handler c asks for
RowsOfToday(c) ==
  {pid \in 1..Len(daily_puzzles) : daily_puzzles[pid].date = calls[c].todayStr}

IdealLetters(s, direction) ==
  {ch \in CodeLowerA..CodeLowerZ :
     \E off \in minOffset..maxOffset :
       ch = IF direction = "before" THEN charAt0(secret_word[s]) - off
            ELSE charAt0(secret_word[s]) + off}

\* C13: every row of daily_puzzles, and every choice of brackets a
\* generation has made and not yet inserted, has topWord before the secret
\* word and bottomWord after it, in the order of the strings.
C13_BracketsAroundSecret ==
  /\ \A pid \in 1..Len(daily_puzzles) :
       /\ StrLess(daily_puzzles[pid].topWord, SecretOf(pid))
       /\ StrLess(SecretOf(pid), daily_puzzles[pid].bottomWord)
  /\ \A c \in CallIds :
       calls[c].pc = "genInsert" =>
         /\ StrLess(calls[c].topWord, secret_word[calls[c].secretId])
         /\ StrLess(secret_word[calls[c].secretId], calls[c].bottomWord)

\* a puzzle of the secret word "sabre": its bottom word begins with the
\* letter of the secret word (the last fallback), its top word with a
\* letter 2-4 before it (the ideal range)
C13_Witness ==
  \E pid \in 1..Len(daily_puzzles) :
    /\ SecretOf(pid) = sabre
    /\ charAt0(daily_puzzles[pid].bottomWord) = charAt0(sabre)
    /\ charAt0(daily_puzzles[pid].topWord) \in IdealLetters(4, "before")

\* C14, as the claim states it: no secret word id is referenced by two rows
\* of daily_puzzles.
C14_SecretNeverReused ==
  \A p1 \in 1..Len(daily_puzzles), p2 \in 1..Len(daily_puzzles) :
    p1 # p2 => daily_puzzles[p1].secretWordId # daily_puzzles[p2].secretWordId

\* C15, as the claim states it: no two rows of daily_puzzles have the same
\* date, also when two calls of getTodaysPuzzle have both found no puzzle
\* for the day before either has inserted one.
C15_OnePuzzlePerDate ==
  \A p1 \in 1..Len(daily_puzzles), p2 \in 1..Len(daily_puzzles) :
    p1 # p2 => daily_puzzles[p1].date # daily_puzzles[p2].date

\* C16: no two rows of user_games have the same sessionId and the same
\* dailyPuzzleId.
C16_OneGamePerSessionAndPuzzle ==
  \A g1 \in Games, g2 \in Games :
    g1 # g2 =>
      \/ user_games[g1].sessionId # user_games[g2].sessionId
      \/ user_games[g1].dailyPuzzleId # user_games[g2].dailyPuzzleId

\* two calls of initializeGame of one session have both found no game; one
\* has inserted its row and the insert of the other has just been refused,
\* with no store request failing
C16_Witness ==
  /\ response.op = "initializeGame"
  /\ response.result.kind = "null"
  /\ response.puzzle # NoPuzzle
  /\ faults = 0
  /\ \E gid \in Games :
       /\ user_games[gid].sessionId = response.sessionId
       /\ user_games[gid].dailyPuzzleId = response.puzzle.id

\* C17: a submitGuess whose update succeeds on a row that another handler
\* has written since this one read it returns success like any other, and
\* the guesses and directions it writes are the ones it read with its own
\* guess appended: what the other handler appended is no longer in the row.
C17_LaterWriteReplacesEarlier ==
  [][\A c \in CallIds :
       UpdateSucceeds(c) /\ ~Undisturbed(c) =>
         LET gid == calls[c].userGame.id
             read == calls[c].userGame
             after == user_games'[gid]
         IN  /\ After(c).result.kind = "value"
             /\ After(c).result.success
             /\ after.guesses = Append(read.guesses, calls[c].guess)
             /\ Len(after.guessDirections) = Len(read.guessDirections) + 1
             /\ After(c).result.newState.guesses = after.guesses]_vars

\* two guesses on one row have both been accepted and the row has grown by
\* one: the handler that has just returned success read a game in
\* progress and did not guess the secret word, the row is completed by the
\* winning guess of another handler, and its guesses are those this handler
\* read and its own guess
C17_Witness ==
  /\ response.op = "submitGuess"
  /\ response.result.success
  /\ ~response.userGame.completed
  /\ toLowerCase(response.guess) # toLowerCase(response.secretWord)
  /\ user_games[response.userGame.id].completed
  /\ user_games[response.userGame.id].guesses =
       Append(response.userGame.guesses, response.guess)

\* per secret word: at least 100 words of the dictionary are before it and
\* at least 100 are after it
EnoughAround ==
  [s \in SecretIds |->
     /\ Cardinality({dw \in dictionary : StrLess(dw, secret_word[s])}) >= 100
     /\ Cardinality({dw \in dictionary : StrLess(secret_word[s], dw)}) >= 100]

NoUnusedSecretHasEnough ==
  \A s \in DOMAIN used : ~used[s] => ~EnoughAround[s]

\* the secret words a generation still has to try: its candidate and the
\* rest of its shuffled list
Pool(cr) == (cr.remaining \cup {cr.candidate}) \cap SecretIds

GenerationThrows(c) ==
  /\ After(c).pc = "done"
  /\ After(c).result.kind = "throw"

\* C18: when generateDailyPuzzle asks for the unused secret words and none
\* of them has 100 dictionary words before it and 100 after it, the call
\* throws at once or goes through its list, every step of the loop leaves
\* it with a shorter list of words that have too few neighbours, and at the
\* end of the list it throws; no step of it inserts a row or marks a
\* secret word used.
C18_NoSuitableSecretFails ==
  [][\A c \in CallIds :
       HandlerStep(c) =>
         /\ calls[c].pc = "genSelect" /\ NoUnusedSecretHasEnough
            => /\ \/ GenerationThrows(c)
                  \/ /\ After(c).pc = "genTopWords"
                     /\ \A s \in Pool(After(c)) : ~EnoughAround[s]
               /\ UNCHANGED <<used, daily_puzzles, user_games>>
         /\ (/\ calls[c].pc \in {"genTopWords", "genBottomWords"}
             /\ \A s \in Pool(calls[c]) : ~EnoughAround[s])
            => /\ \/ GenerationThrows(c)
                  \/ /\ calls[c].pc = "genTopWords"
                     /\ After(c).pc = "genBottomWords"
                     /\ Pool(After(c)) = Pool(calls[c])
                  \/ /\ calls[c].pc = "genBottomWords"
                     /\ calls[c].remaining # {}
                     /\ After(c).pc = "genTopWords"
                     /\ Pool(After(c)) = calls[c].remaining
               /\ calls[c].pc = "genBottomWords" /\ calls[c].remaining = {}
                  => GenerationThrows(c)
               /\ UNCHANGED <<used, daily_puzzles, user_games>>]_vars

\* a generation has just failed at the end of its list: the only unused
\* secret word, "abbey", has no dictionary word before it, both requests
\* for its neighbours were answered, and it was the last candidate
C18_Witness ==
  /\ response.pc = "done"
  /\ response.result.kind = "throw"
  /\ response.candidate = 3
  /\ response.topOk
  /\ response.remaining = {}
  /\ response.secretId = 0
  /\ NoUnusedSecretHasEnough
  /\ used[1]
  /\ ~used[3]
  /\ Len(daily_puzzles) = 1

\* C19, as the claim states it: every word in the guesses of a user_games
\* row has 5 characters and is, in lower case, in wordList or in the
\* dictionary table.
C19_StoredGuessesAreValidated ==
  \A gid \in Games :
    \A k \in 1..Len(user_games[gid].guesses) :
      LET g == user_games[gid].guesses[k]
      IN  /\ Len(g) = 5
          /\ toLowerCase(g) \in wordList \cup dictionary

\* C20, as the claim states it: in no step does the currentTop of a row
\* become smaller or its currentBottom larger, in the order of the strings.
C20_BoundsOnlyNarrow ==
  [][\A gid \in Games :
       /\ ~StrLess(user_games'[gid].currentTop, user_games[gid].currentTop)
       /\ ~StrLess(user_games[gid].currentBottom,
                   user_games'[gid].currentBottom)]_vars

\* C21, as the claim states it: in every completed row of user_games the
\* last guess is the secret word (ignoring case) and the last direction is
\* "win".
C21_CompletedEndsWithSecret ==
  \A gid \in Games :
    user_games[gid].completed =>
      /\ user_games[gid].guesses # <<>>
      /\ toLowerCase(Last(user_games[gid].guesses)) = toLowerCase(GameSecret(gid))
      /\ user_games[gid].guessDirections # <<>>
      /\ Last(user_games[gid].guessDirections) = "win"

\* C22: after every step, completed = won in every row of user_games (no
\* game is ended as lost), and the update of an accepted guess that is not
\* the secret word leaves completed as it is in the row, however many
\* guesses the row holds.
C22_NoGameEndsLost ==
  [][/\ \A gid \in 1..Len(user_games') :
          user_games'[gid].completed = user_games'[gid].won
     /\ \A c \in CallIds :
          /\ UpdateSucceeds(c)
          /\ toLowerCase(calls[c].guess) # toLowerCase(calls[c].secretWord)
          => user_games'[calls[c].userGame.id].completed =
               user_games[calls[c].userGame.id].completed]_vars

\* a game with two accepted guesses, neither of them the secret word, is
\* still in progress
C22_Witness ==
  \E gid \in Games :
    /\ Len(user_games[gid].guesses) = 2
    /\ \A k \in 1..2 :
         toLowerCase(user_games[gid].guesses[k]) # toLowerCase(GameSecret(gid))
    /\ ~user_games[gid].completed
    /\ ~user_games[gid].won

\* the words validation accepts that are strictly between two bounds
WordsBetween(top, bottom) ==
  {w \in wordList \cup dictionary : StrLess(top, w) /\ StrLess(w, bottom)}

\* C23, as the claim states it: every successful update of a guess that is
\* not the secret word, on a row no other handler has written since it was
\* read, leaves fewer dictionary words strictly between currentTop and
\* currentBottom than before, the secret word still among them, and the
\* guess is not one of the row's earlier guesses.
C23_EveryGuessNarrows ==
  [][\A c \in CallIds :
       /\ UpdateSucceeds(c)
       /\ Undisturbed(c)
       /\ toLowerCase(calls[c].guess) # toLowerCase(calls[c].secretWord)
       => LET gid == calls[c].userGame.id
              before == user_games[gid]
              after == user_games'[gid]
          IN  /\ Cardinality(WordsBetween(after.currentTop, after.currentBottom))
                   < Cardinality(WordsBetween(before.currentTop,
                                              before.currentBottom))
              /\ toLowerCase(GameSecret(gid))
                   \in WordsBetween(after.currentTop, after.currentBottom)
              /\ \A k \in 1..Len(before.guesses) :
                   toLowerCase(before.guesses[k]) # toLowerCase(calls[c].guess)]_vars

\* the candidate list of a bracket of secret word id s
BracketCandidates(s, direction) ==
  IF direction = "before" THEN topWordsOf(secret_word[s])
  ELSE bottomWordsOf(secret_word[s])

\* the bracket words the three tiers allow for secret word id s
TierAllows(s, direction) ==
  LET words == BracketCandidates(s, direction)
      ideal == {w \in words : charAt0(w) \in IdealLetters(s, direction)}
      differing == {w \in words : charAt0(w) # charAt0(secret_word[s])}
      nearer(chosen) == {w \in words :
                           IF direction = "before" THEN StrLess(chosen, w)
                           ELSE StrLess(w, chosen)}
  IN  IF ideal # {} THEN ideal
      ELSE IF differing # {} THEN differing
      ELSE {w \in words : Cardinality(nearer(w)) < FallbackWindow}

AllowedTop == [s \in SecretIds |-> TierAllows(s, "before")]

AllowedBottom == [s \in SecretIds |-> TierAllows(s, "after")]

\* C24: the bracket words a generation has chosen, and those of every row of
\* daily_puzzles, begin with a letter 2 to 4 away from the secret word's
\* first letter (before it for the top word, after it for the bottom word)
\* whenever the candidate list has such a word; otherwise with a letter
\* different from the secret word's when the list has such a word; otherwise
\* they are among the first 100 candidates.
C24_BracketTiers ==
  /\ \A c \in CallIds :
       calls[c].pc = "genInsert" =>
         /\ calls[c].topWord \in AllowedTop[calls[c].secretId]
         /\ calls[c].bottomWord \in AllowedBottom[calls[c].secretId]
  /\ \A pid \in 1..Len(daily_puzzles) :
       /\ daily_puzzles[pid].topWord
            \in AllowedTop[daily_puzzles[pid].secretWordId]
       /\ daily_puzzles[pid].bottomWord
            \in AllowedBottom[daily_puzzles[pid].secretWordId]

\* a generation has chosen the brackets of "sabre": the top word begins with
\* a letter 2-4 before "s", the bottom word is one of the first 100 of 101
\* candidates, which all begin with "s"
C24_Witness ==
  \E c \in CallIds :
    /\ calls[c].pc = "genInsert"
    /\ calls[c].secretId = 4
    /\ charAt0(calls[c].topWord) \in IdealLetters(4, "before")
    /\ Cardinality(BracketCandidates(4, "after")) > FallbackWindow
    /\ \A w \in BracketCandidates(4, "after") : charAt0(w) = charAt0(sabre)
    /\ calls[c].bottomWord \in BracketCandidates(4, "after") \ {szzzz}

\* C25: a step that marks a secret word used is taken when a row of
\* daily_puzzles for that secret word is already stored; a step of the
\* insert that stores no row ends the call with a throw and leaves every
\* secret word's used flag as it was.
C25_MarkedOnlyAfterInsert ==
  [][/\ \A s \in DOMAIN used :
          ~used[s] /\ used'[s] =>
            \E pid \in 1..Len(daily_puzzles) :
              daily_puzzles[pid].secretWordId = s
     /\ \A c \in CallIds :
          /\ calls[c].pc = "genInsert"
          /\ HandlerStep(c)
          /\ daily_puzzles' = daily_puzzles
          => /\ After(c).pc = "done"
             /\ After(c).result.kind = "throw"
             /\ used' = used]_vars

\* a call has thrown after it chose a secret word, that is at the insert,
\* and the secret word it chose is not marked used
C25_Witness ==
  /\ response.pc = "done"
  /\ response.result.kind = "throw"
  /\ response.secretId # 0
  /\ ~used[response.secretId]
  /\ \A pid \in 1..Len(daily_puzzles) :
       daily_puzzles[pid].secretWordId # response.secretId

\* C26, as the claim states it: a call of getTodaysPuzzle whose second
\* lookup is made while a row of daily_puzzles for its day exists does not
\* go on to generateDailyPuzzle, whatever the two lookups answer.
C26_GeneratesOnlyWithoutRow ==
  [][\A c \in CallIds :
       /\ calls[c].pc = "lookup2"
       /\ HandlerStep(c)
       /\ RowsOfToday(c) # {}
       => After(c).pc # "genSelect"]_vars

\* C27: no step of a submitGuess handler changes the number of rows of
\* user_games; and when the handler reads the game while user_games has no
\* row for its session id and the puzzle it got, it reads no game, and
\* when both its reads have settled it returns success=false with "Game
\* not found" and user_games stays as it is.
C27_SubmitGuessCreatesNoGame ==
  [][\A c \in CallIds :
       calls[c].op = "submitGuess" /\ HandlerStep(c) =>
         /\ Len(user_games') = Len(user_games)
         /\ (/\ calls[c].pc = "sgRead"
             /\ "userGame" \notin calls[c].settled
             /\ "userGame" \in After(c).settled
             /\ ~\E gid \in Games :
                   /\ user_games[gid].sessionId = calls[c].sessionId
                   /\ user_games[gid].dailyPuzzleId = calls[c].puzzle.id)
            => After(c).userGame = NoGame
         /\ ReadsSettle(c) /\ After(c).userGame = NoGame
            => /\ After(c).pc = "done"
               /\ After(c).result = Failure("Game not found", undefined)
               /\ user_games' = user_games]_vars

\* a request without a session cookie sent a valid guess, every query was
\* answered, and the answer is "Game not found"; no game exists
C27_Witness ==
  /\ response.op = "submitGuess"
  /\ response.reqCookie = NoSession
  /\ response.sessionId # NoSession
  /\ validateWord(response.guess, FALSE).success
  /\ response.result = Failure("Game not found", undefined)
  /\ faults = 0
  /\ user_games = <<>>

\* C28: a step of an initializeGame handler changes no row that user_games
\* already has.  The insert, when it stores a row, stores one for the
\* handler's session and puzzle with currentTop and currentBottom equal to
\* the puzzle row's topWord and bottomWord, no guesses and completed=false,
\* and the handler returns that row's id.  The select, when it is answered
\* and user_games has exactly one row for the handler's session and puzzle,
\* makes the handler return that row's id and fields, with user_games as it
\* was, whatever guesses the row holds; for a completed row the handler
\* first asks for the secret word, and returns the row whether that
\* request is answered or not.
C28_InitializeGameIdempotent ==
  [][\A c \in CallIds :
       calls[c].op = "initializeGame" /\ HandlerStep(c) =>
         /\ \A gid \in Games :
              /\ gid <= Len(user_games')
              /\ user_games'[gid] = user_games[gid]
         /\ Len(user_games') # Len(user_games) =>
              LET row == Last(user_games')
                  puzzle == daily_puzzles[calls[c].puzzle.id]
              IN  /\ calls[c].pc = "igInsert"
                  /\ Len(user_games') = Len(user_games) + 1
                  /\ row.id = Len(user_games')
                  /\ row.sessionId = calls[c].sessionId
                  /\ row.dailyPuzzleId = puzzle.id
                  /\ row.currentTop = puzzle.topWord
                  /\ row.currentBottom = puzzle.bottomWord
                  /\ row.guesses = <<>>
                  /\ row.completed = FALSE
                  /\ After(c).pc = "done"
                  /\ After(c).result.kind = "value"
                  /\ After(c).result.newState.id = row.id
         /\ \A gid \in Games :
              /\ calls[c].pc = "igSelect"
              /\ faults' = faults
              /\ {g \in Games :
                    /\ user_games[g].sessionId = calls[c].sessionId
                    /\ user_games[g].dailyPuzzleId = calls[c].puzzle.id}
                   = {gid}
              => /\ IF user_games[gid].completed
                    THEN /\ After(c).pc = "igSecret"
                         /\ After(c).userGame = user_games[gid]
                    ELSE /\ After(c).pc = "done"
                         /\ After(c).result.kind = "value"
                         /\ After(c).result.newState.id = gid
                         /\ After(c).result.newState.currentTop
                              = user_games[gid].currentTop
                         /\ After(c).result.newState.currentBottom
                              = user_games[gid].currentBottom
                         /\ After(c).result.newState.guesses
                              = user_games[gid].guesses
                 /\ user_games' = user_games
         /\ calls[c].pc = "igSecret"
            => /\ After(c).pc = "done"
               /\ After(c).result.kind = "value"
               /\ After(c).result.newState.id = calls[c].userGame.id
               /\ After(c).result.newState.currentTop
                    = calls[c].userGame.currentTop
               /\ After(c).result.newState.currentBottom
                    = calls[c].userGame.currentBottom
               /\ After(c).result.newState.guesses
                    = calls[c].userGame.guesses
               /\ user_games' = user_games]_vars

\* a later call of initializeGame by a session that has a cookie has
\* returned the session's game of the day, which holds guesses
C28_Witness ==
  /\ response.op = "initializeGame"
  /\ response.reqCookie # NoSession
  /\ response.result.kind = "value"
  /\ response.result.newState.id \in Games
  /\ user_games[response.result.newState.id].sessionId = response.sessionId
  /\ user_games[response.result.newState.id].guesses # <<>>
  /\ response.result.newState.guesses
       = user_games[response.result.newState.id].guesses

\* C29, as the claim states it: the puzzle a call of getTodaysPuzzle has got
\* or returned has the fields id, date, topWord and bottomWord and no other,
\* and no word it holds is the secret word of the puzzle.
C29_PuzzleHidesSecret ==
  \A cr \in {calls[c] : c \in CallIds} \cup {response} :
    cr.puzzle # NoPuzzle =>
      /\ DOMAIN cr.puzzle = {"id", "date", "topWord", "bottomWord"}
      /\ \A f \in DOMAIN cr.puzzle \ {"id", "date"} :
           cr.puzzle[f] # SecretOf(cr.puzzle.id)

\* C30, as the claim states it: a GameBoard has at most one call of
\* submitGuess in flight.
C30_OneSubmitInFlight == board.submitting <= 1

====
